---- MODULE Spec2Model ----
(***************************************************************************)
(* Retrieval-merge-and-citation pipeline of the TiendaInglesa assistant.   *)
(*                                                                         *)
(*   SpecMerge    : conditional_rag_fn / merge_rag_fn                      *)
(*                  (chains/assistant_chain_lcel.py)                       *)
(*   SpecCite     : ReferenceMaker.process_text_references_with_citations  *)
(*                  (utilities/reference_maker.py)                         *)
(*   SpecClassify : RAGService.should_call_groundx                         *)
(*                  (utilities/rag_service.py)                             *)
(*   SpecLocale   : ReferenceMaker.convert_us_to_local                     *)
(*                  (utilities/reference_maker.py)                         *)
(*   SpecRerun    : the resolver called again on its own output            *)
(*   SpecChat     : one /check_rag and /chat_stream client (app.py) and    *)
(*                  the chain it runs (chains/assistant_chain_lcel.py)     *)
(*   SpecRace     : two /chat_stream requests served at the same time      *)
(*   SpecPost     : post_process_fn, resolver then locale formatter        *)
(*   SpecSingleton: RAGService.__new__ / __init__                          *)
(*                  (utilities/rag_service.py)                             *)
(*                                                                         *)
(* Python strings that the code inspects character by character (regular   *)
(* expressions, substring tests, float parsing, fuzzy ratio) are sequences *)
(* of one-character strings.  The merged context, which the code only      *)
(* joins and strips, is a sequence of lines, each line a tuple of parts.   *)
(***************************************************************************)
EXTENDS Integers, Sequences, FiniteSets, TLC

VARIABLES
    \* ---- retrieval stage (assistant_chain_lcel.py) ----
    rag_pc,            \* "idle" | "merged" | "skipped"
    spanish_results,   \* out["spanish_results"]
    english_results,   \* out["english_results"]
    combined_list,     \* merge_rag_fn: combined_list after the sort
    span_score,        \* merge_rag_fn: span_score
    eng_score,         \* merge_rag_fn: eng_score
    context,           \* out["context"] / inputs["context"]
    total_score,       \* rag_service.total_score
    \* ---- citation resolver (reference_maker.py) ----
    cite_pc,           \* "start" | "done"
    docs_list,         \* ReferenceMaker.docs_list
    cite_text,         \* argument text
    cite_out,          \* returned text
    ref_map,           \* ref_map, as the sequence of its items in insertion order
    ref_details,       \* ref_details, as the sequence of its items in insertion order
    fuzzy_calls,       \* arguments of the calls of find_closest_filename, in order
    cite_outcome,      \* "none" | "returned" | "raised"
    rerun_matches,     \* matches of a second call, made on the text the first returned
    rerun_out,         \* text the second call returned
    \* ---- relevance classifier (rag_service.py) ----
    cls_pc,            \* "idle" | "done"
    keywords,          \* RAGService.keywords
    cls_query,         \* argument query
    cls_reply,         \* response.content of the chat model, when it was invoked
    cls_result,        \* returned bool
    llm_calls,         \* number of chat_model.invoke calls made by the current call
    \* ---- locale formatter (reference_maker.py) ----
    loc_pc,            \* "start" | "done"
    loc_in,            \* argument text
    loc_src,           \* argument src_locale
    loc_tgt,           \* argument target_locale
    loc_out,           \* returned text
    loc_outcome,       \* "none" | "returned" | "raised"
    \* ---- chat requests (app.py, assistant_chain_lcel.py) ----
    session,           \* Flask session: cached_message, rag_decision
    req,               \* per /chat_stream request: the locals of chat_stream,
                       \* generate and the chain (fields are listed at ReqNone)
    score_writer,      \* the request whose merge or skip last wrote total_score
    \* ---- the service singleton (rag_service.py) ----
    svc_instance,      \* RAGService._instance and the attributes it carries
    constructions      \* the RAGService() calls made so far and how each ended

ragVars == <<rag_pc, spanish_results, english_results, combined_list,
             span_score, eng_score, context, total_score>>
citeVars == <<cite_pc, docs_list, cite_text, cite_out, ref_map, ref_details,
              fuzzy_calls, cite_outcome, rerun_matches, rerun_out>>
clsVars == <<cls_pc, keywords, cls_query, cls_reply, cls_result, llm_calls>>
locVars == <<loc_pc, loc_in, loc_src, loc_tgt, loc_out, loc_outcome>>
ragLocals == <<rag_pc, spanish_results, english_results, combined_list,
               span_score, eng_score, context>>
chatVars == <<session, req, score_writer>>
svcVars == <<svc_instance, constructions>>
vars == <<ragVars, citeVars, clsVars, locVars, chatVars, svcVars>>

(***************************************************************************)
(* Generic helpers                                                         *)
(***************************************************************************)
Max(a, b) == IF a >= b THEN a ELSE b

SeqsUpTo(S, n) == UNION {[1..k -> S] : k \in 0..n}

RECURSIVE Flatten(_)
Flatten(ss) == IF ss = <<>> THEN <<>> ELSE Head(ss) \o Flatten(Tail(ss))

\* s[from..] starts with p
StartsAt(s, from, p) ==
    /\ from + Len(p) - 1 <= Len(s)
    /\ \A k \in 1..Len(p) : s[from + k - 1] = p[k]

\* Python: p in s
Contains(s, p) == \E i \in 1..(Len(s) + 1) : StartsAt(s, i, p)

(***************************************************************************)
(* Idle values of the components a specification does not exercise         *)
(***************************************************************************)
RagIdle ==
    /\ rag_pc = "idle"
    /\ spanish_results = <<>>
    /\ english_results = <<>>
    /\ combined_list = <<>>
    /\ span_score = 0
    /\ eng_score = 0
    /\ context = <<>>
    /\ total_score = 0

CiteIdle ==
    /\ cite_pc = "start"
    /\ docs_list = <<>>
    /\ cite_text = <<>>
    /\ cite_out = <<>>
    /\ ref_map = <<>>
    /\ ref_details = <<>>
    /\ fuzzy_calls = <<>>
    /\ cite_outcome = "none"
    /\ rerun_matches = <<>>
    /\ rerun_out = <<>>

ClsIdle ==
    /\ cls_pc = "idle"
    /\ keywords = <<>>
    /\ cls_query = <<>>
    /\ cls_reply = <<>>
    /\ cls_result = FALSE
    /\ llm_calls = 0

LocIdle ==
    /\ loc_pc = "start"
    /\ loc_in = <<>>
    /\ loc_src = "en_US"
    /\ loc_tgt = "es_ES"
    /\ loc_out = <<>>
    /\ loc_outcome = "none"

\* the requests that can be in flight together
Requests == {1, 2}

\* a string that was not assigned yet
Unset == "<unset>"

\* a dict key that holds a value, and one that is absent
Present(v) == [set |-> TRUE, value |-> v]
Absent == [set |-> FALSE, value |-> <<>>]

\* the session before any /check_rag; session.get("rag_decision", False)
\* session.get("cached_message") before any /check_rag: None, equal to no message
NoSession == [cached_message |-> <<"<unset>">>, rag_decision |-> FALSE]

\* a request that was not sent yet
ReqNone ==
    [pc |-> "none",                  \* position in chat_stream / generate / the chain
     user_message |-> <<>>,          \* data.get("message", "")
     already_classified |-> FALSE,   \* chain_input["already_classified"]
     rag_decision |-> FALSE,         \* chain_input["rag_decision"], set with
                                     \* already_classified only
     classifier_calls |-> 0,         \* calls of should_call_groundx made by the chain
     rag_used |-> FALSE,             \* what should_call_groundx returned to the chain
     spanish |-> "idle",             \* branch "spanish" of rag_parallel
     english |-> "idle",             \* branch "english" of rag_parallel
     overlapped |-> FALSE,           \* a branch started while the other was running
     spanish_results |-> Absent,     \* newdict["spanish_results"]
     english_query |-> Unset,        \* newdict["english_query"]
     search_query |-> Unset,         \* query of the English search that was issued
     english_results |-> Absent,     \* newdict["english_results"]
     merged_spanish |-> Absent,      \* spanish_results as merge_rag_fn read them
     merged_english |-> Absent,      \* english_results as merge_rag_fn read them
     context |-> <<>>,               \* inputs["context"]
     prompt_context |-> Absent,      \* the context final_prompt_generator_fn put
                                     \* under FACTUAL CONTEXT
     written |-> -1,                 \* what this request assigned to total_score
     streamed_chunks |-> <<>>,       \* generate: streamed_chunks
     yielded |-> <<>>,               \* what generate has yielded, in order
     score |-> -1,                   \* generate: score
     score_from |-> 0,               \* score_writer when score was read
     error |-> "none",               \* the exception generate caught
     flushed |-> 0]                  \* calls of wait_for_all_tracers

ChatIdle ==
    /\ session = NoSession
    /\ req = [r \in Requests |-> ReqNone]
    /\ score_writer = 0

SvcIdle ==
    \* `_instance = None`: no object, no attribute; completed counts the runs of
    \* __init__ that reached its last line
    /\ svc_instance = [exists |-> FALSE, initialized |-> FALSE, attrs |-> {}, completed |-> 0]
    /\ constructions = <<>>

(***************************************************************************)
(* Result Merger: merge_rag_fn and conditional_rag_fn                      *)
(***************************************************************************)
\* bounds on the lengths of the two backend result lists (the code asks for n=5)
MaxSpanish == 2
MaxEnglish == 1

\* the literal 150 of merge_rag_fn
ScoreThreshold == 150

\* file_name of a result object: the attribute may be missing, or be None
NoAttr == "<no file_name attribute>"
Null == "<None>"

\* search results the backend may return
ResultPool ==
    { [score |-> 100, file_name |-> "Manual_P6.pdf", suggested_text |-> "t100"],
      [score |-> 150, file_name |-> "Manual_P6.pdf", suggested_text |-> "t150"],
      [score |-> 150, file_name |-> NoAttr,          suggested_text |-> ""],
      [score |-> 180, file_name |-> Null,            suggested_text |-> "t180"],
      [score |-> 200, file_name |-> NoAttr,          suggested_text |-> "t200"] }

\* the empty line
E == <<>>

FallbackContext ==
    << <<"No documents retrieved for this question. ",
         "Respond using only your general knowledge.">> >>

\* `if score >= 150`, mutated to a strict comparison
KeepStrict(score) == score > ScoreThreshold

\* `if score >= 150`
Keep(score) == score >= ScoreThreshold

\* the tuples appended to combined_list for one branch, in list order;
\* idx is the position of res in its result list (the identity of the object)
RECURSIVE KeptOf(_, _, _)
KeptOf(results, lang, i) ==
    IF i > Len(results) THEN <<>>
    ELSE (IF Keep(results[i].score)
             THEN << [lang |-> lang, score |-> results[i].score,
                      res |-> results[i], idx |-> i] >>
             ELSE <<>>)
         \o KeptOf(results, lang, i + 1)

RECURSIVE SumScores(_)
SumScores(entries) ==
    IF entries = <<>> THEN 0 ELSE Head(entries).score + SumScores(Tail(entries))

\* number of leading entries of a descending list whose score is > / >= s
RECURSIVE CountWhile(_, _, _)
CountWhile(sorted, s, strict) ==
    IF sorted = <<>> THEN 0
    ELSE IF (IF strict THEN Head(sorted).score > s ELSE Head(sorted).score >= s)
         THEN 1 + CountWhile(Tail(sorted), s, strict)
         ELSE 0

\* an unstable insertion: the new entry goes ahead of the entries of equal score
InsertDescUnstable(sorted, e) ==
    LET k == CountWhile(sorted, e.score, TRUE)
    IN  SubSeq(sorted, 1, k) \o <<e>> \o SubSeq(sorted, k + 1, Len(sorted))

\* list.sort(key=score, reverse=True) is stable: an entry ends up behind every
\* earlier entry whose score is greater or equal
InsertDesc(sorted, e) ==
    LET k == CountWhile(sorted, e.score, FALSE)
    IN  SubSeq(sorted, 1, k) \o <<e>> \o SubSeq(sorted, k + 1, Len(sorted))

RECURSIVE SortDesc(_, _)
SortDesc(done, rest) ==
    IF rest = <<>> THEN done
    ELSE SortDesc(InsertDesc(done, Head(rest)), Tail(rest))

\* getattr(doc, "file_name", f"Documento {lang}") as the f-string renders it
FileNameParts(doc, lang) ==
    IF doc.file_name = NoAttr THEN <<"Documento ", lang>>
    ELSE IF doc.file_name = Null THEN <<"None">>
    ELSE <<doc.file_name>>

AttributionLine(doc, lang) ==
    <<"The following text excerpt is from a document named ">>
        \o FileNameParts(doc, lang) \o <<":">>

\* one snippet, split at its newlines; the last E is the text after the final "\n"
Snippet(entry) ==
    << <<"----------">>,
       AttributionLine(entry.res, entry.lang),
       E,
       IF entry.res.suggested_text = "" THEN E ELSE <<entry.res.suggested_text>>,
       E >>

RECURSIVE Chunks(_)
Chunks(entries) ==
    IF entries = <<>> THEN <<>> ELSE <<Snippet(Head(entries))>> \o Chunks(Tail(entries))

\* "\n".join(chunks): every chunk ends with "\n", so the joined lines are the
\* chunks' lines one after the other
JoinChunks(chunks) == Flatten(chunks)

\* str.strip() on a text whose first and last non-empty lines carry no blanks
RECURSIVE StripLeft(_)
StripLeft(lines) ==
    IF lines # <<>> /\ Head(lines) = E THEN StripLeft(Tail(lines)) ELSE lines

RECURSIVE StripRight(_)
StripRight(lines) ==
    IF lines # <<>> /\ lines[Len(lines)] = E
        THEN StripRight(SubSeq(lines, 1, Len(lines) - 1))
        ELSE lines

Strip(lines) == StripRight(StripLeft(lines))

\* the context without the `else` branch that substitutes the fallback text
FinalContextNoFallback(chunks) == Strip(JoinChunks(chunks))

\* `if chunks: ... else: ...`
FinalContext(chunks) ==
    IF chunks # <<>> THEN Strip(JoinChunks(chunks)) ELSE FallbackContext

\* the accumulator added to instead of overwritten
NewTotalScoreAdded(old, span, eng) == old + span + eng

\* rag_service.total_score = span_score + eng_score
NewTotalScore(old, span, eng) == span + eng

\* rag_parallel_merge.invoke: both searches return their result lists (sr, er)
\* and merge_rag_fn merges them
RagParallelMerge(sr, er) ==
    /\ rag_pc = "idle"
    /\ spanish_results' = sr
    /\ english_results' = er
    /\ LET es == KeptOf(sr, "ES", 1)
           en == KeptOf(er, "EN", 1)
           sorted == SortDesc(<<>>, es \o en)
       IN  /\ combined_list' = sorted
           /\ span_score' = SumScores(es)
           /\ eng_score' = SumScores(en)
           /\ context' = FinalContext(Chunks(sorted))
           /\ total_score' = NewTotalScore(total_score, SumScores(es), SumScores(en))
    /\ rag_pc' = "merged"

\* conditional_rag_fn, else branch
SkipRag ==
    /\ rag_pc = "idle"
    /\ rag_pc' = "skipped"
    /\ total_score' = 0
    /\ context' = FallbackContext
    /\ UNCHANGED <<spanish_results, english_results, combined_list, span_score, eng_score>>

\* the request ends: its locals are gone, rag_service.total_score stays
FinishRag ==
    /\ rag_pc \in {"merged", "skipped"}
    /\ rag_pc' = "idle"
    /\ spanish_results' = <<>>
    /\ english_results' = <<>>
    /\ combined_list' = <<>>
    /\ span_score' = 0
    /\ eng_score' = 0
    /\ context' = <<>>
    /\ UNCHANGED total_score

InitMerge == RagIdle /\ CiteIdle /\ ClsIdle /\ LocIdle /\ ChatIdle /\ SvcIdle

NextMerge ==
    \/ \E sr \in SeqsUpTo(ResultPool, MaxSpanish), er \in SeqsUpTo(ResultPool, MaxEnglish) :
          RagParallelMerge(sr, er) /\ UNCHANGED <<citeVars, clsVars, locVars, chatVars, svcVars>>
    \/ SkipRag /\ UNCHANGED <<citeVars, clsVars, locVars, chatVars, svcVars>>
    \/ FinishRag /\ UNCHANGED <<citeVars, clsVars, locVars, chatVars, svcVars>>

SpecMerge == InitMerge /\ [][NextMerge]_vars

(***************************************************************************)
(* Relevance Classifier: RAGService.should_call_groundx                    *)
(***************************************************************************)
\* bounds on the lengths of the query and of the chat model's reply
MaxQueryLen == 2
MaxReplyLen == 3

\* "x" stands for any character that is no part of a number
Queries == SeqsUpTo({"H", "h", "o"}, MaxQueryLen)
Replies == SeqsUpTo({"5", "0", ".", "-", " ", "x"}, MaxReplyLen)

\* the literals 50 of should_call_groundx
DefaultProbability == 50
ClassifierThreshold == 50

LowerChar(c) == IF c = "H" THEN "h" ELSE c

\* query.lower() that leaves the query as it is
LowerIdentity(s) == s

\* query.lower()
Lower(s) == [i \in 1..Len(s) |-> LowerChar(s[i])]

\* for kw in self.keywords: if kw in lower_query: return True
KeywordHit(kws, query) ==
    \E k \in 1..Len(kws) : Contains(Lower(query), kws[k])

RECURSIVE StripBlanksLeft(_)
StripBlanksLeft(s) ==
    IF s # <<>> /\ Head(s) = " " THEN StripBlanksLeft(Tail(s)) ELSE s

RECURSIVE StripBlanksRight(_)
StripBlanksRight(s) ==
    IF s # <<>> /\ s[Len(s)] = " "
        THEN StripBlanksRight(SubSeq(s, 1, Len(s) - 1))
        ELSE s

\* response.content.strip()
StripBlanks(s) == StripBlanksRight(StripBlanksLeft(s))

DigitChars == {"0", "1", "2", "3", "4", "5", "6", "7", "8", "9"}

DigitVal(c) ==
    CASE c = "0" -> 0 [] c = "1" -> 1 [] c = "2" -> 2 [] c = "3" -> 3 [] c = "4" -> 4
      [] c = "5" -> 5 [] c = "6" -> 6 [] c = "7" -> 7 [] c = "8" -> 8 [] c = "9" -> 9

RECURSIVE Pow10(_)
Pow10(n) == IF n = 0 THEN 1 ELSE 10 * Pow10(n - 1)

\* the number written by the digits of s, other characters skipped
RECURSIVE DigitsValue(_, _)
DigitsValue(s, acc) ==
    IF s = <<>> THEN acc
    ELSE IF Head(s) \in DigitChars
         THEN DigitsValue(Tail(s), 10 * acc + DigitVal(Head(s)))
         ELSE DigitsValue(Tail(s), acc)

\* float(result_text) for the texts of Replies: an optional "-", digits with at
\* most one ".", at least one digit; anything else raises ValueError.  The value
\* is (-1)^neg * mant / 10^scale.
ParseFloat(s) ==
    LET neg == s # <<>> /\ Head(s) = "-"
        body == IF neg THEN Tail(s) ELSE s
        dots == {i \in 1..Len(body) : body[i] = "."}
        digs == {i \in 1..Len(body) : body[i] \in DigitChars}
    IN  IF /\ Cardinality(dots) <= 1
           /\ Cardinality(digs) >= 1
           /\ Cardinality(dots) + Cardinality(digs) = Len(body)
        THEN [err |-> "none", neg |-> neg, mant |-> DigitsValue(body, 0),
              scale |-> IF dots = {} THEN 0
                        ELSE Len(body) - (CHOOSE i \in dots : TRUE)]
        ELSE [err |-> "ValueError", neg |-> FALSE, mant |-> 0, scale |-> 0]

\* the except clause that defaults to 0 instead of 50
ProbabilityDefaultZero(parsed) ==
    IF parsed.err = "none" THEN parsed
    ELSE [err |-> "none", neg |-> FALSE, mant |-> 0, scale |-> 0]

\* try: probability = float(result_text); except ValueError: probability = 50.0
Probability(parsed) ==
    IF parsed.err = "none" THEN parsed
    ELSE [err |-> "none", neg |-> FALSE, mant |-> DefaultProbability, scale |-> 0]

\* return probability >= threshold
Decide(prob) ==
    /\ ~prob.neg
    /\ prob.mant >= ClassifierThreshold * Pow10(prob.scale)

\* should_call_groundx(query); reply is what the chat model answers if asked
ShouldCallGroundx(q) ==
    /\ cls_pc = "idle"
    /\ cls_pc' = "done"
    /\ cls_query' = q
    /\ IF KeywordHit(keywords, q)
       THEN /\ cls_result' = TRUE
            /\ llm_calls' = 0
            /\ cls_reply' = <<>>
       ELSE \E reply \in Replies :
            /\ llm_calls' = 1
            /\ cls_reply' = reply
            /\ cls_result' = Decide(Probability(ParseFloat(StripBlanks(reply))))
    /\ UNCHANGED keywords

\* the caller has the answer; the next call starts
ClsReturn ==
    /\ cls_pc = "done"
    /\ cls_pc' = "idle"
    /\ cls_query' = <<>>
    /\ cls_reply' = <<>>
    /\ cls_result' = FALSE
    /\ llm_calls' = 0
    /\ UNCHANGED keywords

InitClassify ==
    /\ RagIdle /\ CiteIdle /\ LocIdle /\ ChatIdle /\ SvcIdle
    /\ cls_pc = "idle"
    \* config["keywords"]: none, one keyword, two keywords, a capitalised keyword
    /\ keywords \in { <<>>,
                     << <<"h", "o">> >>,
                     << <<"o", "o", "o">>, <<"h", "h">> >>,
                     << <<"H", "o">> >> }
    /\ cls_query = <<>>
    /\ cls_reply = <<>>
    /\ cls_result = FALSE
    /\ llm_calls = 0

NextClassify ==
    \/ \E q \in Queries :
          ShouldCallGroundx(q) /\ UNCHANGED <<ragVars, citeVars, locVars, chatVars, svcVars>>
    \/ ClsReturn /\ UNCHANGED <<ragVars, citeVars, locVars, chatVars, svcVars>>

SpecClassify == InitClassify /\ [][NextClassify]_vars

(***************************************************************************)
(* Citation Resolver: ReferenceMaker.process_text_references_with_citations*)
(***************************************************************************)
\* bound on the number of pieces an answer text is put together from
MaxPieces == 3

\* the threshold RAGService passes to ReferenceMaker
MatchThreshold == 70

\* os.getenv("EMPRESA")
Empresa == <<"T", "I">>

\* files of the documents directory
FileManualP6 == <<"M", "a", "n", "u", "a", "l", "_", "P", "6", ".", "p", "d", "f">>
FileManual6 == <<"M", "a", "n", "u", "a", "l", "_", "6", ".", "m", "d">>
FileGuia == <<"G", "u", "i", "a", ".", "m", "d">>

\* pieces of answer text: four bolded document names, plain text, a lone asterisk
AnswerTexts ==
    {Flatten(ps) : ps \in SeqsUpTo(
        { <<"*", "*", "M", "a", "n", "u", "a", "l", " ", "P", "6", "*", "*">>,
          <<"*", "*", "M", "a", "n", "u", "a", "l", "+", "P", "6", "*", "*">>,
          <<"*", "*", "G", "u", "i", "a", "*", "*">>,
          <<"*", "*", "A", "n", "e", "x", "o", "*", "*">>,
          <<" ", "y", " ">>,
          <<"*">> }, MaxPieces)}

StarStar == <<"*", "*">>

\* last position of the run of non-asterisks that starts at position j
RunEnd(text, j) ==
    IF \E k \in j..Len(text) : text[k] = "*"
    THEN (CHOOSE k \in j..Len(text) :
              text[k] = "*" /\ \A h \in j..(k - 1) : text[h] # "*") - 1
    ELSE Len(text)

\* doc_regex = \*\*([^*]+)\*\* tried at position i
MatchAt(text, i) ==
    IF /\ StartsAt(text, i, StarStar)
       /\ i + 2 <= Len(text)
       /\ text[i + 2] # "*"
       /\ StartsAt(text, RunEnd(text, i + 2) + 1, StarStar)
    THEN [ok |-> TRUE, start |-> i, stop |-> RunEnd(text, i + 2) + 2,
          group |-> SubSeq(text, i + 2, RunEnd(text, i + 2))]
    ELSE [ok |-> FALSE, start |-> i, stop |-> i, group |-> <<>>]

\* the non-overlapping matches of doc_regex from position i on, left to right
RECURSIVE FindAll(_, _)
FindAll(text, i) ==
    IF \E j \in i..Len(text) : MatchAt(text, j).ok
    THEN LET j == CHOOSE j \in i..Len(text) :
                      MatchAt(text, j).ok /\ \A h \in i..(j - 1) : ~MatchAt(text, h).ok
             m == MatchAt(text, j)
         IN  <<m>> \o FindAll(text, m.stop + 1)
    ELSE <<>>

\* str.replace(pat, rep)
RECURSIVE ReplaceAll(_, _, _, _)
ReplaceAll(s, i, pat, rep) ==
    IF i > Len(s) THEN <<>>
    ELSE IF StartsAt(s, i, pat) THEN rep \o ReplaceAll(s, i + Len(pat), pat, rep)
    ELSE <<s[i]>> \o ReplaceAll(s, i + 1, pat, rep)

\* normalize_reference_name
NormalizeReferenceName(name) ==
    LET a == ReplaceAll(name, 1, <<"+">>, <<" ">>)
        b == ReplaceAll(a, 1, <<"%", "2", "0">>, <<" ">>)
        c == ReplaceAll(b, 1, <<"%", "2", "8">>, <<"(">>)
    IN  ReplaceAll(c, 1, <<"%", "2", "9">>, <<")">>)

\* one row of the longest-common-subsequence table: prev is the row of the
\* characters before c, acc the entries of the new row computed so far
RECURSIVE LcsRow(_, _, _, _)
LcsRow(prev, c, t, acc) ==
    IF Len(acc) = Len(t) THEN acc
    ELSE LET j == Len(acc) + 1
             diag == IF j = 1 THEN 0 ELSE prev[j - 1]
             left == IF j = 1 THEN 0 ELSE acc[j - 1]
             v == IF c = t[j] THEN diag + 1 ELSE Max(prev[j], left)
         IN  LcsRow(prev, c, t, Append(acc, v))

RECURSIVE LcsRows(_, _, _)
LcsRows(s, t, prev) ==
    IF s = <<>> THEN prev ELSE LcsRows(Tail(s), t, LcsRow(prev, Head(s), t, <<>>))

\* length of a longest common subsequence of s and t
Lcs(s, t) ==
    IF t = <<>> THEN 0
    ELSE LcsRows(s, t, [j \in 1..Len(t) |-> 0])[Len(t)]

\* fuzz.ratio(s, t) = 100 * 2 * Lcs / (len(s) + len(t)), kept as the fraction
\* num / den with 100 * num / den the score
Ratio(s, t) == [num |-> 2 * Lcs(s, t), den |-> Len(s) + Len(t)]

\* score a > score b
ScoreGreater(a, b) == a.num * b.den > b.num * a.den

\* process.extractOne(query, choices, scorer=fuzz.ratio): the position of the
\* first choice of highest score, 0 (None) when there is no choice; the strings
\* are compared as they are (no processor, as in rapidfuzz 3)
RECURSIVE ExtractOne(_, _, _, _)
ExtractOne(query, choices, i, best) ==
    IF i > Len(choices) THEN best
    ELSE IF best = 0 \/ ScoreGreater(Ratio(query, choices[i]), Ratio(query, choices[best]))
         THEN ExtractOne(query, choices, i + 1, i)
         ELSE ExtractOne(query, choices, i + 1, best)

\* `if score >= self.threshold` with a strict comparison
AcceptStrict(score) == 100 * score.num > MatchThreshold * score.den

\* `if score >= self.threshold`
Accept(score) == 100 * score.num >= MatchThreshold * score.den

\* None
NoFile == <<>>

\* find_closest_filename: unpacking the None that extractOne returns for an
\* empty docs_list raises TypeError
FindClosestFilename(reference_name, docs) ==
    LET query == NormalizeReferenceName(reference_name)
        best == ExtractOne(query, docs, 1, 0)
    IN  IF best = 0 THEN [raised |-> TRUE, matched |-> NoFile]
        ELSE IF Accept(Ratio(query, docs[best]))
             THEN [raised |-> FALSE, matched |-> docs[best]]
             ELSE [raised |-> FALSE, matched |-> NoFile]

\* `ref_str in ref_map`
InRefMap(rm, ref_str) == \E k \in 1..Len(rm) : rm[k].ref_str = ref_str

\* the loop without its `if ref_str in ref_map: continue`
AlreadyMappedNever(rm, ref_str) == FALSE

\* `if ref_str in ref_map: continue`
AlreadyMapped(rm, ref_str) == InRefMap(rm, ref_str)

\* ref_map[ref_str] = index: a dict keeps one item per key
RefMapPut(rm, ref_str, index) ==
    IF \E k \in 1..Len(rm) : rm[k].ref_str = ref_str
    THEN [k \in 1..Len(rm) |->
             IF rm[k].ref_str = ref_str THEN [ref_str |-> ref_str, index |-> index]
             ELSE rm[k]]
    ELSE Append(rm, [ref_str |-> ref_str, index |-> index])

\* current_index += 1 placed outside `if matched_filename`
NextIndexAlways(current_index, matched) == current_index + 1

\* current_index += 1 inside `if matched_filename`
NextIndex(current_index, matched) ==
    IF matched # NoFile THEN current_index + 1 ELSE current_index

\* `for ref_str in matches`, from the k-th match on; st holds the loop's locals
RECURSIVE ResolveLoop(_, _, _, _)
ResolveLoop(matches, k, docs, st) ==
    IF k > Len(matches) \/ st.raised THEN st
    ELSE LET ref_str == matches[k].group
         IN  IF AlreadyMapped(st.ref_map, ref_str)
             THEN ResolveLoop(matches, k + 1, docs, st)
             ELSE LET found == FindClosestFilename(ref_str, docs)
                      calls == Append(st.calls, ref_str)
                  IN  IF found.raised
                      THEN [st EXCEPT !.calls = calls, !.raised = TRUE]
                      ELSE ResolveLoop(matches, k + 1, docs,
                             [ref_map |->
                                  IF found.matched # NoFile
                                  THEN RefMapPut(st.ref_map, ref_str, st.current_index)
                                  ELSE st.ref_map,
                              ref_details |->
                                  IF found.matched # NoFile
                                  THEN Append(st.ref_details,
                                              [index |-> st.current_index,
                                               ref_str |-> ref_str,
                                               matched_filename |-> found.matched])
                                  ELSE st.ref_details,
                              current_index |-> NextIndex(st.current_index, found.matched),
                              calls |-> calls,
                              raised |-> FALSE])

\* str(i) for i >= 0
RECURSIVE IntToChars(_)
IntToChars(n) ==
    LET d == <<"0", "1", "2", "3", "4", "5", "6", "7", "8", "9">>[(n % 10) + 1]
    IN  IF n < 10 THEN <<d>> ELSE Append(IntToChars(n \div 10), d)

MarkerOpen == <<" ", "<", "s", "p", "a", "n", " ", "c", "l", "a", "s", "s", "=", "\"",
    "d", "o", "c", "-", "c", "i", "t", "a", "t", "i", "o", "n", "-", "n",
    "u", "m", "b", "e", "r", "\"", ">", "[">>
MarkerClose == <<"]", "<", "/", "s", "p", "a", "n", ">">>

\* replacer(match_obj)
Replacement(text, m, rm) ==
    IF InRefMap(rm, m.group)
    THEN StarStar \o m.group \o StarStar
             \o MarkerOpen
             \o IntToChars(rm[CHOOSE k \in 1..Len(rm) : rm[k].ref_str = m.group].index)
             \o MarkerClose
    ELSE SubSeq(text, m.start, m.stop)

\* doc_regex.sub(replacer, text): the text from position pos on, with the
\* matches from the k-th on replaced
RECURSIVE Substitute(_, _, _, _, _)
Substitute(text, matches, k, pos, rm) ==
    IF k > Len(matches) THEN SubSeq(text, pos, Len(text))
    ELSE SubSeq(text, pos, matches[k].start - 1)
             \o Replacement(text, matches[k], rm)
             \o Substitute(text, matches, k + 1, matches[k].stop + 1, rm)

\* urllib.parse.quote(filename): letters, digits and _.-~/ stay, the other
\* characters of the file names used here are percent-encoded
QuoteChar(c) ==
    CASE c = " " -> <<"%", "2", "0">>
      [] c = "(" -> <<"%", "2", "8">>
      [] c = ")" -> <<"%", "2", "9">>
      [] c = "*" -> <<"%", "2", "A">>
      [] c = "+" -> <<"%", "2", "B">>
      [] c = "," -> <<"%", "2", "C">>
      [] OTHER -> <<c>>

RECURSIVE EncodeFilenameForUrl(_)
EncodeFilenameForUrl(filename) ==
    IF filename = <<>> THEN <<>>
    ELSE QuoteChar(Head(filename)) \o EncodeFilenameForUrl(Tail(filename))

RefsHeader == <<"\n", "\n", "<", "b", ">", "R", "e", "f", "e", "r", "e", "n", "c", "i",
    "a", "s", ":", "<", "/", "b", ">", "\n">>
LiOpen == <<"<", "l", "i", ">", "[">>
LiHref == <<"]", " ", "<", "a", " ", "h", "r", "e", "f", "=", "\"">>

\* the <li> item of one ref_details entry
RefItem(info) ==
    IF info.matched_filename # NoFile
    THEN LiOpen \o IntToChars(info.index) \o LiHref
             \o <<"s", "t", "a", "t", "i", "c", "/">> \o Empresa
             \o <<"/", "d", "o", "c", "s", "/">>
             \o EncodeFilenameForUrl(info.matched_filename)
             \o <<"\"", " ", "t", "a", "r", "g", "e", "t", "=", "\"", "_", "b", "l", "a",
                  "n", "k", "\"", ">">>
             \o info.matched_filename
             \o <<"<", "/", "a", ">", "<", "/", "l", "i", ">">>
    ELSE <<>>

\* `for i in sorted(ref_details.keys())`: the items are appended with rising
\* keys, so insertion order is sorted order unless a key was written twice
RECURSIVE RefItems(_)
RefItems(details) ==
    IF details = <<>> THEN <<>> ELSE RefItem(Head(details)) \o RefItems(Tail(details))

\* `if ref_details: text += references_block`
ReferencesBlock(details) ==
    IF details # <<>> THEN RefsHeader \o RefItems(details) ELSE <<>>

\* process_text_references_with_citations(text) with docs_list = docs: what
\* the call returns or raises, and the locals it ends with
ProcessTextReferencesWithCitations(text, docs) ==
    LET matches == FindAll(text, 1)
        st == ResolveLoop(matches, 1, docs,
                          [ref_map |-> <<>>, ref_details |-> <<>>, current_index |-> 1,
                           calls |-> <<>>, raised |-> FALSE])
    IN  IF matches = <<>>
        THEN [outcome |-> "returned", out |-> text, matches |-> matches,
              ref_map |-> <<>>, ref_details |-> <<>>, calls |-> <<>>]
        ELSE IF st.raised
        THEN [outcome |-> "raised", out |-> <<>>, matches |-> matches,
              ref_map |-> st.ref_map, ref_details |-> st.ref_details, calls |-> st.calls]
        ELSE [outcome |-> "returned",
              out |-> Substitute(text, matches, 1, 1, st.ref_map)
                          \o ReferencesBlock(st.ref_details),
              matches |-> matches,
              ref_map |-> st.ref_map, ref_details |-> st.ref_details, calls |-> st.calls]

\* a call of process_text_references_with_citations on the answer text
ProcessTextReferences ==
    /\ cite_pc = "start"
    /\ cite_pc' = "done"
    /\ LET r == ProcessTextReferencesWithCitations(cite_text, docs_list)
       IN  /\ cite_out' = r.out
           /\ cite_outcome' = r.outcome
           /\ ref_map' = r.ref_map
           /\ ref_details' = r.ref_details
           /\ fuzzy_calls' = r.calls
    /\ UNCHANGED <<docs_list, cite_text, rerun_matches, rerun_out>>

\* /process_references called with the text a first call returned
ProcessAgain ==
    /\ cite_pc = "done"
    /\ cite_outcome = "returned"
    /\ cite_pc' = "rerun"
    /\ LET r == ProcessTextReferencesWithCitations(cite_out, docs_list)
       IN  /\ rerun_matches' = r.matches
           /\ rerun_out' = r.out
    /\ UNCHANGED <<docs_list, cite_text, cite_out, cite_outcome, ref_map,
                   ref_details, fuzzy_calls>>

InitCite ==
    /\ RagIdle /\ ClsIdle /\ LocIdle /\ ChatIdle /\ SvcIdle
    /\ cite_pc = "start"
    \* docs_list after load_documents: the directory listing, or [] when the
    \* directory is empty or the listing failed
    /\ docs_list \in { <<>>,
                      <<FileManualP6>>,
                      <<FileManual6>>,
                      <<FileGuia>>,
                      <<FileManualP6, FileGuia>>,
                      <<FileManual6, FileManualP6>>,
                      <<FileGuia, FileManual6, FileManualP6>> }
    /\ cite_text \in AnswerTexts
    /\ cite_out = <<>>
    /\ ref_map = <<>>
    /\ ref_details = <<>>
    /\ fuzzy_calls = <<>>
    /\ cite_outcome = "none"
    /\ rerun_matches = <<>>
    /\ rerun_out = <<>>

NextCite == ProcessTextReferences /\ UNCHANGED <<ragVars, clsVars, locVars, chatVars, svcVars>>

SpecCite == InitCite /\ [][NextCite]_vars

\* a file whose name carries the emphasis delimiter
FileStarred == <<"*", "*", "A", "n", "e", "x", "o", "*", "*">>

InitRerun ==
    /\ RagIdle /\ ClsIdle /\ LocIdle /\ ChatIdle /\ SvcIdle
    /\ cite_pc = "start"
    /\ docs_list \in { <<FileManualP6, FileGuia>>, <<FileStarred, FileGuia>> }
    /\ cite_text \in AnswerTexts
    /\ cite_out = <<>>
    /\ ref_map = <<>>
    /\ ref_details = <<>>
    /\ fuzzy_calls = <<>>
    /\ cite_outcome = "none"
    /\ rerun_matches = <<>>
    /\ rerun_out = <<>>

NextRerun ==
    \/ ProcessTextReferences /\ UNCHANGED <<ragVars, clsVars, locVars, chatVars, svcVars>>
    \/ ProcessAgain /\ UNCHANGED <<ragVars, clsVars, locVars, chatVars, svcVars>>

SpecRerun == InitRerun /\ [][NextRerun]_vars

(***************************************************************************)
(* Locale Number Formatter: ReferenceMaker.convert_us_to_local             *)
(***************************************************************************)
\* bound on the number of pieces a text to localize is put together from
MaxLocalePieces == 3

TokenRoom == <<"R", "o", "o", "m", "1", "2", "3">>
TokenVersion == <<"v", "2", ".", "0", ".", "1">>

LocalePieces ==
    { TokenRoom,
      TokenVersion,
      <<"1", ",", "2", "3", "4", ".", "5", "0">>,
      <<"1", ",", "0", "0", "0", ",", "0", "0", "0">>,
      <<"7">>,
      <<" ">>,
      <<".">> }

\* locales Babel has data for, with their group and decimal signs
KnownLocales == {"en_US", "es_ES", "de_DE"}

\* a locale identifier Babel has no data for: Locale.parse raises
UnknownLocale == "xx_XX"


\* \w at position p
WordAt(text, p) ==
    /\ p >= 1 /\ p <= Len(text)
    /\ \/ text[p] \in DigitChars
       \/ text[p] \in
             {"a", "b", "c", "d", "e", "f", "g", "h", "i", "j", "k", "l", "m", "n",
              "o", "p", "q", "r", "s", "t", "u", "v", "w", "x", "y", "z", "A", "B",
              "C", "D", "E", "F", "G", "H", "I", "J", "K", "L", "M", "N", "O", "P",
              "Q", "R", "S", "T", "U", "V", "W", "X", "Y", "Z"}
       \/ text[p] = "_"

\* \b between positions p - 1 and p
Boundary(text, p) == WordAt(text, p - 1) # WordAt(text, p)

DigitAt(text, p) == p >= 1 /\ p <= Len(text) /\ text[p] \in DigitChars

\* number of digits in a row from position p on
DigitRun(text, p) ==
    IF \E k \in p..Len(text) : text[k] \notin DigitChars
    THEN (CHOOSE k \in p..Len(text) :
              text[k] \notin DigitChars /\ \A h \in p..(k - 1) : text[h] \in DigitChars) - p
    ELSE Max(Len(text) + 1 - p, 0)

\* number of groups ",ddd" in a row from position p on
RECURSIVE GroupRun(_, _)
GroupRun(text, p) ==
    IF /\ p + 3 <= Len(text)
       /\ text[p] = ","
       /\ DigitAt(text, p + 1) /\ DigitAt(text, p + 2) /\ DigitAt(text, p + 3)
    THEN 1 + GroupRun(text, p + 4)
    ELSE 0

\* number of digits that follow a "." at position p, 0 without the "."
FracRun(text, p) ==
    IF p <= Len(text) /\ text[p] = "." THEN DigitRun(text, p + 1) ELSE 0

\* last position of a match from i with n leading digits, g groups and f
\* fraction digits (f = 0: no fraction)
StopOf(i, c) == i + c.n + 4 * c.g + (IF c.f = 0 THEN 0 ELSE c.f + 1) - 1

\* the ways \d{1,3}(,\d{3})*(\.\d+)? can match from position i
Shapes(text, i) ==
    UNION { UNION { { [n |-> n, g |-> g, f |-> f] : f \in 0..FracRun(text, i + n + 4 * g) }
                    : g \in 0..GroupRun(text, i + n) }
            : n \in 1..(IF DigitRun(text, i) > 3 THEN 3 ELSE DigitRun(text, i)) }

\* the regex engine tries the longer alternative first at every choice
Preferred(a, b) ==
    \/ a.n > b.n
    \/ a.n = b.n /\ a.g > b.g
    \/ a.n = b.n /\ a.g = b.g /\ a.f >= b.f

\* pattern = \b\d{1,3}(,\d{3})*(\.\d+)?\b tried at position i
NumberMatchAt(text, i) ==
    LET ok == {c \in Shapes(text, i) : Boundary(text, StopOf(i, c) + 1)}
    IN  IF DigitAt(text, i) /\ Boundary(text, i) /\ ok # {}
        THEN [ok |-> TRUE, start |-> i,
              stop |-> StopOf(i, CHOOSE c \in ok : \A d \in ok : Preferred(c, d))]
        ELSE [ok |-> FALSE, start |-> i, stop |-> i]

\* string.replace(group_symbol, '').replace(decimal_symbol, '.')
RECURSIVE Ungroup(_, _)
Ungroup(s, locale) ==
    LET group_symbol == IF locale = "en_US" THEN "," ELSE "."
        decimal_symbol == IF locale = "en_US" THEN "." ELSE ","
    IN  IF s = <<>> THEN <<>>
        ELSE (IF Head(s) = group_symbol THEN <<>>
              ELSE IF Head(s) = decimal_symbol THEN <<".">>
              ELSE <<Head(s)>>) \o Ungroup(Tail(s), locale)

\* parse_decimal(token, locale=src_locale): Locale.parse raises on a locale
\* without data; the group signs are dropped and the decimal sign becomes
\* "."; decimal.Decimal raises on what is then not digits[.digits]; the value
\* is int + frac / 10^Len(frac)
ParseDecimal(token, locale) ==
    LET cleaned == Ungroup(token, locale)
        dots == {k \in 1..Len(cleaned) : cleaned[k] = "."}
        dot == IF dots # {} THEN CHOOSE k \in dots : TRUE ELSE Len(cleaned) + 1
    IN  IF locale \notin KnownLocales \/ Cardinality(dots) > 1
               \/ \E k \in 1..Len(cleaned) : cleaned[k] \notin DigitChars \cup {"."}
        THEN [err |-> TRUE, int |-> 0, frac |-> <<>>]
        ELSE [err |-> FALSE,
              int |-> DigitsValue(SubSeq(cleaned, 1, dot - 1), 0),
              frac |-> SubSeq(cleaned, dot + 1, Len(cleaned))]

\* the digits after the third make the value round up (ROUND_HALF_EVEN)
RoundsUp(frac, thousandths) ==
    /\ Len(frac) > 3
    /\ \/ DigitVal(frac[4]) > 5
       \/ /\ DigitVal(frac[4]) = 5
          /\ \/ \E k \in 5..Len(frac) : frac[k] # "0"
             \/ thousandths % 2 = 1

\* n written with at least w digits
RECURSIVE PadDigits(_, _)
PadDigits(n, w) ==
    IF Len(IntToChars(n)) >= w THEN IntToChars(n)
    ELSE <<"0">> \o SubSeq(PadDigits(n, w - 1), 1, w - 1)

RECURSIVE StripTrailingZeros(_)
StripTrailingZeros(s) ==
    IF s # <<>> /\ s[Len(s)] = "0" THEN StripTrailingZeros(SubSeq(s, 1, Len(s) - 1)) ELSE s

\* the digits of n in groups of three separated by sep
RECURSIVE Grouped(_, _)
Grouped(n, sep) ==
    IF n < 1000 THEN IntToChars(n)
    ELSE Grouped(n \div 1000, sep) \o sep \o PadDigits(n % 1000, 3)

\* format_decimal(value, locale="es_ES"), pattern #,##0.###: "." groups the
\* integer digits in threes from four digits on, "," is the decimal sign, at
\* most three fraction digits, trailing zeros dropped
FormatDecimal(value) ==
    LET th == DigitsValue(SubSeq(value.frac \o <<"0", "0", "0">>, 1, 3), 0)
        rounded == th + (IF RoundsUp(value.frac, th) THEN 1 ELSE 0)
        frac == StripTrailingZeros(PadDigits(rounded % 1000, 3))
    IN  Grouped(value.int + rounded \div 1000, <<".">>)
            \o (IF frac = <<>> THEN <<>> ELSE <<",">> \o frac)

\* the replacer with no try/except around the parse and the format
OnFailureRaise(us_number_str) == [raised |-> TRUE, text |-> <<>>]

\* `except Exception: return us_number_str`
OnFailure(us_number_str) == [raised |-> FALSE, text |-> us_number_str]

\* replacer(match): parse under src_locale, format under target_locale
\* (format_decimal raises on a locale without data)
LocalReplacement(token, src_locale, target_locale) ==
    LET parsed == ParseDecimal(token, src_locale)
    IN  IF parsed.err \/ target_locale \notin KnownLocales
        THEN OnFailure(token)
        ELSE [raised |-> FALSE, text |-> FormatDecimal(parsed)]

\* pattern.sub(replacer, text) from position i on; an exception of the
\* replacer ends the substitution
RECURSIVE SubNumbers(_, _, _, _)
SubNumbers(text, i, src_locale, target_locale) ==
    IF \E j \in i..Len(text) : NumberMatchAt(text, j).ok
    THEN LET j == CHOOSE j \in i..Len(text) :
                      NumberMatchAt(text, j).ok
                          /\ \A h \in i..(j - 1) : ~NumberMatchAt(text, h).ok
             m == NumberMatchAt(text, j)
             r == LocalReplacement(SubSeq(text, m.start, m.stop), src_locale, target_locale)
             rest == SubNumbers(text, m.stop + 1, src_locale, target_locale)
         IN  IF r.raised THEN [raised |-> TRUE, text |-> <<>>]
             ELSE IF rest.raised THEN rest
             ELSE [raised |-> FALSE, text |-> SubSeq(text, i, j - 1) \o r.text \o rest.text]
    ELSE [raised |-> FALSE, text |-> SubSeq(text, i, Len(text))]

\* convert_us_to_local(text, src_locale, target_locale)
ConvertUsToLocal ==
    /\ loc_pc = "start"
    /\ loc_pc' = "done"
    /\ LET r == SubNumbers(loc_in, 1, loc_src, loc_tgt)
       IN  /\ loc_out' = r.text
           /\ loc_outcome' = IF r.raised THEN "raised" ELSE "returned"
    /\ UNCHANGED <<loc_in, loc_src, loc_tgt>>

InitLocale ==
    /\ RagIdle /\ CiteIdle /\ ClsIdle /\ ChatIdle /\ SvcIdle
    /\ loc_pc = "start"
    /\ loc_in \in {Flatten(ps) : ps \in SeqsUpTo(LocalePieces, MaxLocalePieces)}
    /\ loc_src \in {"en_US", "de_DE", UnknownLocale}
    /\ loc_tgt \in {"es_ES", UnknownLocale}
    /\ loc_out = <<>>
    /\ loc_outcome = "none"

NextLocale == ConvertUsToLocal /\ UNCHANGED <<ragVars, citeVars, clsVars, chatVars, svcVars>>

SpecLocale == InitLocale /\ [][NextLocale]_vars

(***************************************************************************)
(* Chat requests: check_rag, chat_stream.generate and the chain            *)
(* (app.py, chains/assistant_chain_lcel.py).  A request moves through      *)
(*   none -> classify -> invoke -> parallel -> llm -> postprocess          *)
(*        -> feedback -> finally -> closed                                 *)
(* with "skip" in place of invoke/parallel when retrieval is skipped,      *)
(* "error" for the except clause of generate and "rejected" for the 400.   *)
(* The summarizer and the prompt generator pass the context on and are not *)
(* steps of their own; an exception of theirs is one of the chat model's   *)
(* stream before its first chunk.                                          *)
(***************************************************************************)
\* bound on the number of chunks the chat model streams for one answer
MaxChunks == 2

\* messages a client posts: none, one with the keyword "ho" in it, one without
MsgOther == <<"o">>
Messages == {<<>>, <<"H", "o">>, MsgOther}

\* config["keywords"]
ChatKeywords == << <<"h", "o">> >>

\* what the classifier's chat model answers
ChatReplies == { <<"8", "0">>, <<"2", "0">> }

\* what the backend returns to the Spanish and to the English search
ChatSpanish ==
    { <<>>,
      << [score |-> 100, file_name |-> "Manual_P6.pdf", suggested_text |-> "t100"],
         [score |-> 200, file_name |-> NoAttr, suggested_text |-> "t200"] >> }
ChatEnglish ==
    { <<>>,
      << [score |-> 180, file_name |-> Null, suggested_text |-> "t180"] >> }

\* chunks of the chat model's answer
ChunkTexts ==
    { <<"*", "*", "G", "u", "i", "a", "*", "*">>,
      <<" ", "1", ",", "2", "3", "4", ".", "5">>,
      <<"o", "k">> }

\* should_call_groundx(query), reply being what the chat model answers if asked
ShouldCallGroundxResult(kws, query, reply) ==
    IF KeywordHit(kws, query) THEN TRUE
    ELSE Decide(Probability(ParseFloat(StripBlanks(reply))))

\* the strings generate yields: a tag and what follows it
TextChunk(chunk_text) == [tag |-> "", body |-> chunk_text]
RefChunk(final_answer_localized) ==
    [tag |-> "\n[REF_POSTPROCESS]", body |-> final_answer_localized]
RunIdChunk(urn) == [tag |-> "\n[RUN_ID]", body |-> urn]
ErrorChunk(e) == [tag |-> "\n[ERROR] ", body |-> e]

\* cb.traced_runs[0].id.urn of request r
RunUrn(r) == <<"urn:uuid", r>>

\* /check_rag: classify the message and keep the decision in the session.
\* chat_stream reads the session once, before it builds chain_input, so only
\* the calls that come before the /chat_stream requests are followed.
CheckRag(m, reply) ==
    /\ \A r \in Requests : req[r].pc = "none"
    /\ session' = [cached_message |-> m,
                   rag_decision |-> ShouldCallGroundxResult(keywords, m, reply)]
    /\ UNCHANGED <<req, total_score, score_writer>>

\* /chat_stream up to the Response: 400 on an empty message, else chain_input
\* is built from the message and the session
ChatStream(r, m) ==
    /\ req[r].pc = "none"
    /\ IF m = <<>>
       THEN req' = [req EXCEPT ![r].pc = "rejected"]
       ELSE req' = [req EXCEPT
                ![r].pc = "classify",
                ![r].user_message = m,
                ![r].already_classified = (session.cached_message = m),
                ![r].rag_decision =
                    IF session.cached_message = m THEN session.rag_decision ELSE FALSE]
    /\ UNCHANGED <<session, total_score, score_writer>>

\* conditional_rag_fn: `if rag_service.should_call_groundx(query)`
ConditionalRagClassify(r, reply) ==
    /\ req[r].pc = "classify"
    /\ LET rag_used == ShouldCallGroundxResult(keywords, req[r].user_message, reply)
       IN  req' = [req EXCEPT
                ![r].classifier_calls = @ + 1,
                ![r].rag_used = rag_used,
                ![r].pc = IF rag_used THEN "invoke" ELSE "skip"]
    /\ UNCHANGED <<session, total_score, score_writer>>

\* the classifier's chat model raises
ClassifyRaise(r) ==
    /\ req[r].pc = "classify"
    /\ ~KeywordHit(keywords, req[r].user_message)
    /\ req' = [req EXCEPT ![r].classifier_calls = @ + 1,
                          ![r].pc = "error", ![r].error = "classifier"]
    /\ UNCHANGED <<session, total_score, score_writer>>

\* an else branch that resets the score and forgets the context
ConditionalRagSkipNoContext(r) ==
    /\ req[r].pc = "skip"
    /\ total_score' = 0
    /\ score_writer' = r
    /\ req' = [req EXCEPT ![r].written = 0, ![r].pc = "summarize"]
    /\ UNCHANGED session

\* conditional_rag_fn, else branch
ConditionalRagSkip(r) ==
    /\ req[r].pc = "skip"
    /\ total_score' = 0
    /\ score_writer' = r
    /\ req' = [req EXCEPT ![r].context = FallbackContext, ![r].written = 0,
                          ![r].pc = "summarize"]
    /\ UNCHANGED session

\* rag_parallel_merge.invoke: RunnableParallel hands both branches to its
\* thread pool
RagParallelInvoke(r) ==
    /\ req[r].pc = "invoke"
    /\ req' = [req EXCEPT ![r].pc = "parallel",
                          ![r].spanish = "submitted", ![r].english = "submitted"]
    /\ UNCHANGED <<session, total_score, score_writer>>

\* a branch is in one of its calls
Running(branch) == branch \in {"searching", "translating"}

\* spanish_search_fn calls groundx_search_spanish_only
SpanishSearchCall(r) ==
    /\ req[r].pc = "parallel"
    /\ req[r].spanish = "submitted"
    /\ req' = [req EXCEPT ![r].spanish = "searching",
                          ![r].overlapped = @ \/ Running(req[r].english)]
    /\ UNCHANGED <<session, total_score, score_writer>>

\* the Spanish search returns results_es
SpanishSearchReturn(r, results_es) ==
    /\ req[r].pc = "parallel"
    /\ req[r].spanish = "searching"
    /\ req' = [req EXCEPT ![r].spanish = "done",
                          ![r].spanish_results = Present(results_es)]
    /\ UNCHANGED <<session, total_score, score_writer>>

\* the Spanish search raises
SpanishSearchRaise(r) ==
    /\ req[r].pc = "parallel"
    /\ req[r].spanish = "searching"
    /\ req' = [req EXCEPT ![r].spanish = "search_failed"]
    /\ UNCHANGED <<session, total_score, score_writer>>

\* translator_fn calls translate_spanish_to_english
TranslateCall(r) ==
    /\ req[r].pc = "parallel"
    /\ req[r].english = "submitted"
    /\ req' = [req EXCEPT ![r].english = "translating",
                          ![r].overlapped = @ \/ Running(req[r].spanish)]
    /\ UNCHANGED <<session, total_score, score_writer>>

\* the translation returns eng_query; english_search_fn calls
\* groundx_search_english_only(inputs["english_query"])
TranslateReturn(r, eng_query) ==
    /\ req[r].pc = "parallel"
    /\ req[r].english = "translating"
    /\ req' = [req EXCEPT ![r].english = "searching",
                          ![r].english_query = eng_query,
                          ![r].search_query = eng_query]
    /\ UNCHANGED <<session, total_score, score_writer>>

\* a translator_fn that catches the exception and goes on without results
TranslateErrorSwallowed(b) ==
    [b EXCEPT !.english = "done", !.english_results = Present(<<>>)]

\* nothing catches the exception of translate_spanish_to_english: it ends the
\* branch
TranslateError(b) == [b EXCEPT !.english = "translate_failed"]

\* the translation raises
TranslateRaise(r) ==
    /\ req[r].pc = "parallel"
    /\ req[r].english = "translating"
    /\ req' = [req EXCEPT ![r] = TranslateError(req[r])]
    /\ UNCHANGED <<session, total_score, score_writer>>

\* the English search returns results_en
EnglishSearchReturn(r, results_en) ==
    /\ req[r].pc = "parallel"
    /\ req[r].english = "searching"
    /\ req' = [req EXCEPT ![r].english = "done",
                          ![r].english_results = Present(results_en)]
    /\ UNCHANGED <<session, total_score, score_writer>>

\* the English search raises
EnglishSearchRaise(r) ==
    /\ req[r].pc = "parallel"
    /\ req[r].english = "searching"
    /\ req' = [req EXCEPT ![r].english = "search_failed"]
    /\ UNCHANGED <<session, total_score, score_writer>>

\* a branch has ended, with a result or with an exception
Finished(branch) == branch \in {"done", "translate_failed", "search_failed"}

Failed(branch) == branch \in {"translate_failed", "search_failed"}

\* a join that takes the result of the first branch only
JoinedEarly(spanish, english) == Finished(spanish)

\* RunnableParallel.invoke returns or raises once both futures have ended
Joined(spanish, english) == Finished(spanish) /\ Finished(english)

\* out.get(key, [])
GetOrEmpty(entry) == IF entry.set THEN entry.value ELSE <<>>

\* rag_parallel | merge_rag_runnable: both branches returned, merge_rag_fn runs
MergeRagFn(r) ==
    /\ req[r].pc = "parallel"
    /\ Joined(req[r].spanish, req[r].english)
    /\ ~Failed(req[r].spanish) /\ ~Failed(req[r].english)
    /\ LET sr == GetOrEmpty(req[r].spanish_results)
           er == GetOrEmpty(req[r].english_results)
           es == KeptOf(sr, "ES", 1)
           en == KeptOf(er, "EN", 1)
           sorted == SortDesc(<<>>, es \o en)
           total == NewTotalScore(total_score, SumScores(es), SumScores(en))
       IN  /\ total_score' = total
           /\ req' = [req EXCEPT ![r].merged_spanish = Present(sr),
                                 ![r].merged_english = Present(er),
                                 ![r].context = FinalContext(Chunks(sorted)),
                                 ![r].written = total,
                                 ![r].pc = "summarize"]
    /\ score_writer' = r
    /\ UNCHANGED session

\* a branch raised: RunnableParallel.invoke raises the exception of the first
\* failed branch once both have ended, and merge_rag_fn is not called
ParallelRaise(r) ==
    /\ req[r].pc = "parallel"
    /\ Joined(req[r].spanish, req[r].english)
    /\ Failed(req[r].spanish) \/ Failed(req[r].english)
    /\ req' = [req EXCEPT
            ![r].pc = "error",
            ![r].error = IF Failed(req[r].spanish) THEN "spanish_search"
                         ELSE IF req[r].english = "translate_failed" THEN "translate"
                         ELSE "english_search"]
    /\ UNCHANGED <<session, total_score, score_writer>>

\* summarizer_lcel: the history is returned as it is or replaced by its
\* summary; inputs["context"] is passed on untouched
SummarizeHistory(r) ==
    /\ req[r].pc = "summarize"
    /\ req' = [req EXCEPT ![r].pc = "prompt"]
    /\ UNCHANGED <<session, total_score, score_writer>>

\* final_prompt_generator_fn: inputs["context"] goes into the system message
FinalPromptGenerator(r) ==
    /\ req[r].pc = "prompt"
    /\ req' = [req EXCEPT ![r].prompt_context = Present(req[r].context),
                          ![r].pc = "llm"]
    /\ UNCHANGED <<session, total_score, score_writer>>

\* `for partial in run_chain_stream(...)`: one chunk of the answer is appended
\* to streamed_chunks and yielded
YieldChunk(r, chunk_text) ==
    /\ req[r].pc = "llm"
    /\ Len(req[r].streamed_chunks) < MaxChunks
    /\ req' = [req EXCEPT ![r].streamed_chunks = Append(@, chunk_text),
                          ![r].yielded = Append(@, TextChunk(chunk_text))]
    /\ UNCHANGED <<session, total_score, score_writer>>

\* the chain's stream is exhausted
StreamEnd(r) ==
    /\ req[r].pc = "llm"
    /\ req' = [req EXCEPT ![r].pc = "postprocess"]
    /\ UNCHANGED <<session, total_score, score_writer>>

\* the chain raises after the retrieval step: in the summarizer's model, in
\* the prompt generator or while the chat model streams
StreamRaise(r) ==
    /\ req[r].pc \in {"summarize", "prompt", "llm"}
    /\ req' = [req EXCEPT ![r].pc = "error", ![r].error = "chain"]
    /\ UNCHANGED <<session, total_score, score_writer>>

\* "".join of the last chunk only
EntireLlmOutputLast(streamed_chunks) ==
    IF streamed_chunks = <<>> THEN <<>> ELSE streamed_chunks[Len(streamed_chunks)]

\* "".join(streamed_chunks)
EntireLlmOutput(streamed_chunks) == Flatten(streamed_chunks)

\* post_process_fn(answer): the citation resolver, then the locale formatter
PostProcessFn(answer, docs) ==
    CHOOSE localized \in
        { IF processed.outcome = "raised" THEN [raised |-> TRUE, text |-> <<>>]
          ELSE SubNumbers(processed.out, 1, "en_US", "es_ES")
          : processed \in {ProcessTextReferencesWithCitations(answer, docs)} } : TRUE

\* generate after the loop: post-process the whole answer and yield it
PostProcess(r) ==
    /\ req[r].pc = "postprocess"
    /\ LET p == PostProcessFn(EntireLlmOutput(req[r].streamed_chunks), docs_list)
       IN  IF p.raised
           THEN req' = [req EXCEPT ![r].pc = "error", ![r].error = "post_process"]
           ELSE req' = [req EXCEPT ![r].yielded = Append(@, RefChunk(p.text)),
                                   ![r].pc = "feedback"]
    /\ UNCHANGED <<session, total_score, score_writer>>

\* a read of the score this request wrote itself
ScoreReadOwn(r) == req[r].written

\* score = rag_service.total_score
ScoreRead(r) == total_score

\* generate: read the score, send the feedback, yield the run id
Feedback(r) ==
    /\ req[r].pc = "feedback"
    /\ req' = [req EXCEPT ![r].score = ScoreRead(r),
                          ![r].score_from = score_writer,
                          ![r].yielded = Append(@, RunIdChunk(RunUrn(r))),
                          ![r].pc = "finally"]
    /\ UNCHANGED <<session, total_score, score_writer>>

\* cb.traced_runs is empty, or create_feedback raises
FeedbackRaise(r) ==
    /\ req[r].pc = "feedback"
    /\ req' = [req EXCEPT ![r].pc = "error", ![r].error = "feedback"]
    /\ UNCHANGED <<session, total_score, score_writer>>

\* an except clause that only logs
ErrorChunksNone(e) == <<>>

\* `except Exception as e: yield f"\n[ERROR] {str(e)}"`
ErrorChunks(e) == <<ErrorChunk(e)>>

\* generate: the except clause
HandleError(r) ==
    /\ req[r].pc = "error"
    /\ req' = [req EXCEPT ![r].yielded = @ \o ErrorChunks(req[r].error),
                          ![r].pc = "finally"]
    /\ UNCHANGED <<session, total_score, score_writer>>

\* generate: `finally: wait_for_all_tracers()`, and the generator ends
Finally(r) ==
    /\ req[r].pc = "finally"
    /\ req' = [req EXCEPT ![r].flushed = @ + 1, ![r].pc = "closed"]
    /\ UNCHANGED <<session, total_score, score_writer>>

\* what a chat step leaves alone
ChatFrame == UNCHANGED <<ragLocals, citeVars, clsVars, locVars, svcVars>>

\* one client: /check_rag and one /chat_stream
InitChat ==
    /\ RagIdle /\ LocIdle /\ ChatIdle /\ SvcIdle
    /\ cite_pc = "start"
    /\ docs_list \in { <<FileGuia>>, <<>> }
    /\ cite_text = <<>> /\ cite_out = <<>> /\ ref_map = <<>> /\ ref_details = <<>>
    /\ fuzzy_calls = <<>> /\ cite_outcome = "none"
    /\ rerun_matches = <<>> /\ rerun_out = <<>>
    /\ cls_pc = "idle"
    /\ keywords = ChatKeywords
    /\ cls_query = <<>> /\ cls_reply = <<>> /\ cls_result = FALSE /\ llm_calls = 0

NextChat ==
    \/ \E m \in Messages, reply \in ChatReplies : CheckRag(m, reply) /\ ChatFrame
    \/ \E m \in Messages : ChatStream(1, m) /\ ChatFrame
    \/ \E reply \in ChatReplies : ConditionalRagClassify(1, reply) /\ ChatFrame
    \/ ClassifyRaise(1) /\ ChatFrame
    \/ ConditionalRagSkip(1) /\ ChatFrame
    \/ RagParallelInvoke(1) /\ ChatFrame
    \/ SpanishSearchCall(1) /\ ChatFrame
    \/ \E results_es \in ChatSpanish : SpanishSearchReturn(1, results_es) /\ ChatFrame
    \/ SpanishSearchRaise(1) /\ ChatFrame
    \/ TranslateCall(1) /\ ChatFrame
    \/ \E eng_query \in {"english a", "english b"} : TranslateReturn(1, eng_query) /\ ChatFrame
    \/ TranslateRaise(1) /\ ChatFrame
    \/ \E results_en \in ChatEnglish : EnglishSearchReturn(1, results_en) /\ ChatFrame
    \/ EnglishSearchRaise(1) /\ ChatFrame
    \/ MergeRagFn(1) /\ ChatFrame
    \/ ParallelRaise(1) /\ ChatFrame
    \/ SummarizeHistory(1) /\ ChatFrame
    \/ FinalPromptGenerator(1) /\ ChatFrame
    \/ \E chunk_text \in ChunkTexts : YieldChunk(1, chunk_text) /\ ChatFrame
    \/ StreamEnd(1) /\ ChatFrame
    \/ StreamRaise(1) /\ ChatFrame
    \/ PostProcess(1) /\ ChatFrame
    \/ Feedback(1) /\ ChatFrame
    \/ FeedbackRaise(1) /\ ChatFrame
    \/ HandleError(1) /\ ChatFrame
    \/ Finally(1) /\ ChatFrame

SpecChat == InitChat /\ [][NextChat]_vars

\* two clients whose /chat_stream requests are served at the same time by two
\* threads; nothing fails
InitRace ==
    /\ RagIdle /\ LocIdle /\ ChatIdle /\ SvcIdle
    /\ cite_pc = "start"
    /\ docs_list = <<FileGuia>>
    /\ cite_text = <<>> /\ cite_out = <<>> /\ ref_map = <<>> /\ ref_details = <<>>
    /\ fuzzy_calls = <<>> /\ cite_outcome = "none"
    /\ rerun_matches = <<>> /\ rerun_out = <<>>
    /\ cls_pc = "idle"
    /\ keywords = ChatKeywords
    /\ cls_query = <<>> /\ cls_reply = <<>> /\ cls_result = FALSE /\ llm_calls = 0

NextRace ==
    \E r \in Requests :
        \/ ChatStream(r, MsgOther) /\ ChatFrame
        \/ \E reply \in ChatReplies : ConditionalRagClassify(r, reply) /\ ChatFrame
        \/ ConditionalRagSkip(r) /\ ChatFrame
        \/ RagParallelInvoke(r) /\ ChatFrame
        \/ SpanishSearchCall(r) /\ ChatFrame
        \/ \E results_es \in ChatSpanish : SpanishSearchReturn(r, results_es) /\ ChatFrame
        \/ TranslateCall(r) /\ ChatFrame
        \/ TranslateReturn(r, "english a") /\ ChatFrame
        \/ \E results_en \in ChatEnglish : EnglishSearchReturn(r, results_en) /\ ChatFrame
        \/ MergeRagFn(r) /\ ChatFrame
        \/ SummarizeHistory(r) /\ ChatFrame
        \/ FinalPromptGenerator(r) /\ ChatFrame
        \/ YieldChunk(r, <<"o", "k">>) /\ ChatFrame
        \/ StreamEnd(r) /\ ChatFrame
        \/ PostProcess(r) /\ ChatFrame
        \/ Feedback(r) /\ ChatFrame
        \/ Finally(r) /\ ChatFrame

SpecRace == InitRace /\ [][NextRace]_vars

(***************************************************************************)
(* Post-processing of a whole answer: post_process_fn                      *)
(***************************************************************************)

\* files whose names carry a digit group
FileGuia15 == <<"G", "u", "i", "a", " ", "1", ".", "5", ".", "m", "d">>
FileTabla == <<"T", "a", "b", "l", "a", " ", "1", ",", "2", "3", "4", ".", "m", "d">>

\* post_process_fn(answer): process_references_in_text, then
\* convert_us_to_local(processed, src_locale='en_US', target_locale='es_ES')
PostProcessAnswer ==
    /\ cite_pc = "start"
    /\ cite_pc' = "done"
    /\ loc_pc' = "done"
    /\ \E r \in {ProcessTextReferencesWithCitations(cite_text, docs_list)},
          p \in {PostProcessFn(cite_text, docs_list)} :
           /\ cite_out' = r.out
           /\ cite_outcome' = r.outcome
           /\ ref_map' = r.ref_map
           /\ ref_details' = r.ref_details
           /\ fuzzy_calls' = r.calls
           /\ loc_in' = r.out
           /\ loc_out' = p.text
           /\ loc_outcome' = IF p.raised THEN "raised" ELSE "returned"
    /\ UNCHANGED <<docs_list, cite_text, rerun_matches, rerun_out, loc_src, loc_tgt>>

InitPost ==
    /\ RagIdle /\ ClsIdle /\ ChatIdle /\ SvcIdle
    /\ cite_pc = "start"
    /\ docs_list \in { <<FileGuia>>, <<FileGuia15>>, <<FileTabla>>,
                       <<FileGuia, FileGuia15, FileTabla>> }
    \* pieces of an answer: three bolded document names, a number, plain text
    /\ cite_text \in
          {Flatten(ps) : ps \in SeqsUpTo(
              { <<"*", "*", "G", "u", "i", "a", "*", "*">>,
                <<"*", "*", "G", "u", "i", "a", " ", "1", ".", "5", "*", "*">>,
                <<"*", "*", "T", "a", "b", "l", "a", " ", "1", ",", "2", "3", "4", "*", "*">>,
                <<" ", "1", ",", "2", "3", "4", ".", "5", " ">>,
                <<" ", "y", " ">> }, MaxPieces)}
    /\ cite_out = <<>>
    /\ ref_map = <<>>
    /\ ref_details = <<>>
    /\ fuzzy_calls = <<>>
    /\ cite_outcome = "none"
    /\ rerun_matches = <<>>
    /\ rerun_out = <<>>
    /\ loc_pc = "start"
    /\ loc_in = <<>>
    /\ loc_src = "en_US"
    /\ loc_tgt = "es_ES"
    /\ loc_out = <<>>
    /\ loc_outcome = "none"

NextPost == PostProcessAnswer /\ UNCHANGED <<ragVars, clsVars, chatVars, svcVars>>

SpecPost == InitPost /\ [][NextPost]_vars

(***************************************************************************)
(* The service singleton: RAGService.__new__ / __init__                    *)
(***************************************************************************)

MaxConstructions == 3

\* the attributes __init__ assigns after _initialized, in its order
Attributes ==
    <<"openai_api_key", "groundx_api_key", "empresa", "config", "buckets",
      "bucket_id", "domain", "keywords", "chat_model", "groundx", "client",
      "total_score", "reference_maker">>

\* how many of them are assigned before __init__ raises or ends:
\* load_config_json raises in the assignment of config, the three checks of
\* step 4 raise ValueError after keywords, ReferenceMaker raises ValueError in
\* the assignment of reference_maker
Assigned(env) ==
    CASE env = "config_unreadable" -> 3
      [] env \in {"no_openai_key", "no_groundx_key", "bucket_not_numeric"} -> 8
      [] env = "no_docs_directory" -> 12
      [] OTHER -> Len(Attributes)

\* __init__(self): returns at once when _initialized is set, else sets it and
\* then reads, loads, validates and builds
RagServiceInit(self, env) ==
    IF self.initialized
    THEN [raised |-> FALSE, self |-> self]
    ELSE [raised |-> Assigned(env) < Len(Attributes),
          self |-> [self EXCEPT
                      !.initialized = TRUE,
                      !.attrs = @ \cup {Attributes[i] : i \in 1..Assigned(env)},
                      !.completed =
                          IF Assigned(env) = Len(Attributes) THEN @ + 1 ELSE @]]

\* RAGService(): __new__ creates _instance when there is none and returns it,
\* then __init__ runs on it; the call returns the instance or raises
Construct(env) ==
    /\ Len(constructions) < MaxConstructions
    /\ LET self == [svc_instance EXCEPT !.exists = TRUE]
           r == RagServiceInit(self, env)
       IN  /\ svc_instance' = r.self
           /\ constructions' =
                 Append(constructions,
                        [env |-> env, raised |-> r.raised, attrs |-> r.self.attrs])

InitSingleton ==
    RagIdle /\ CiteIdle /\ ClsIdle /\ LocIdle /\ ChatIdle /\ SvcIdle

NextSingleton ==
    \* what the environment, the company's config.json and the docs directory can
    \* be when RAGService() is called
    \E env \in {"ok", "config_unreadable", "no_openai_key", "no_groundx_key",
                "bucket_not_numeric", "no_docs_directory"} :
        Construct(env) /\ UNCHANGED <<ragVars, citeVars, clsVars, locVars, chatVars>>

SpecSingleton == InitSingleton /\ [][NextSingleton]_vars

(***************************************************************************)
(* Claims about the Result Merger                                          *)
(***************************************************************************)
\* the positions of a result list whose score is at or above the threshold
Passing(results) == {i \in 1..Len(results) : results[i].score >= ScoreThreshold}

RECURSIVE SumPassing(_)
SumPassing(results) ==
    IF results = <<>> THEN 0
    ELSE (IF Head(results).score >= ScoreThreshold THEN Head(results).score ELSE 0)
         + SumPassing(Tail(results))

SeparatorLines == {k \in 1..Len(context) : context[k] = <<"----------">>}

NumPassing == Cardinality(Passing(spanish_results)) + Cardinality(Passing(english_results))

InBranch(e) == IF e.lang = "ES" THEN spanish_results ELSE english_results

\* C1: after a merge no result with score < 150 is in the merged list, rendered,
\* or counted in a branch sum, and every result with score >= 150 (150 itself
\* included) is in the merged list and rendered.
C1_Filtering ==
    rag_pc = "merged" =>
        /\ \A k \in 1..Len(combined_list) :
              /\ combined_list[k].score >= ScoreThreshold
              /\ combined_list[k].idx \in 1..Len(InBranch(combined_list[k]))
              /\ InBranch(combined_list[k])[combined_list[k].idx] = combined_list[k].res
              /\ combined_list[k].res.score = combined_list[k].score
        /\ \A i \in Passing(spanish_results) :
              \E k \in 1..Len(combined_list) :
                  combined_list[k].lang = "ES" /\ combined_list[k].idx = i
        /\ \A i \in Passing(english_results) :
              \E k \in 1..Len(combined_list) :
                  combined_list[k].lang = "EN" /\ combined_list[k].idx = i
        /\ Cardinality(SeparatorLines) = NumPassing
        /\ span_score = SumPassing(spanish_results)
        /\ eng_score = SumPassing(english_results)

\* C1 witness: a merge that dropped a result below 150 and kept one at exactly 150
C1_Witness ==
    /\ rag_pc = "merged"
    /\ \E i \in 1..Len(spanish_results) : spanish_results[i].score < ScoreThreshold
    /\ \E k \in 1..Len(combined_list) : combined_list[k].score = ScoreThreshold

\* C2: after a merge or a skip the context is not the empty string; it is the
\* fallback text exactly when no result passed the threshold, and otherwise it
\* starts with a rendered block.
C2_ContextNeverEmpty ==
    rag_pc \in {"merged", "skipped"} =>
        /\ context # <<>>
        /\ (context = FallbackContext) <=> (NumPassing = 0)
        /\ NumPassing > 0 => (context[1] = <<"----------">> /\ Len(context) >= 2)

\* C2 witness: a merge whose results were all below the threshold
C2_Witness ==
    /\ rag_pc = "merged"
    /\ Len(spanish_results) > 0
    /\ NumPassing = 0
    /\ context = FallbackContext

\* C3: the merged list has one entry per kept result, in non-increasing score
\* order; among equal scores ES entries precede EN entries and entries of the
\* same branch keep their list order; the k-th rendered block is the k-th entry.
C3_StableDescending ==
    rag_pc = "merged" =>
        /\ Len(combined_list) = NumPassing
        /\ \A i, j \in 1..Len(combined_list) :
              i < j =>
                 /\ combined_list[i].score >= combined_list[j].score
                 /\ combined_list[i].score = combined_list[j].score =>
                       \/ combined_list[i].lang = "ES" /\ combined_list[j].lang = "EN"
                       \/ /\ combined_list[i].lang = combined_list[j].lang
                          /\ combined_list[i].idx < combined_list[j].idx
        /\ \A k \in 1..Len(combined_list) :
              /\ context[5 * (k - 1) + 1] = <<"----------">>
              /\ context[5 * (k - 1) + 2] =
                     AttributionLine(combined_list[k].res, combined_list[k].lang)

\* C3 witness: equal scores across the branches and inside the source branch
C3_Witness ==
    /\ rag_pc = "merged"
    /\ Len(combined_list) = 3
    /\ combined_list[1].score = combined_list[3].score
    /\ combined_list[1].lang = "ES" /\ combined_list[2].lang = "ES"
    /\ combined_list[1].res # combined_list[2].res
    /\ combined_list[3].lang = "EN"

\* C4: after a merge total_score is the sum of the scores >= 150 of both result
\* lists of that merge, whatever total_score was before.
C4_TotalOverwritten ==
    rag_pc = "merged" =>
        total_score = SumPassing(spanish_results) + SumPassing(english_results)

\* C4 witness: the scenario [200, 100] + [180]: two blocks, ordered 200, 180,
\* total 380
C4_Witness ==
    /\ rag_pc = "merged"
    /\ Len(spanish_results) = 2 /\ Len(english_results) = 1
    /\ spanish_results[1].score = 200 /\ spanish_results[2].score = 100
    /\ english_results[1].score = 180
    /\ Len(combined_list) = 2
    /\ combined_list[1].score = 200 /\ combined_list[2].score = 180
    /\ Cardinality(SeparatorLines) = 2
    /\ total_score = 380

(***************************************************************************)
(* Claims about the Relevance Classifier                                   *)
(***************************************************************************)
\* the query, every "H" replaced by "h"
LoweredQuery == [i \in 1..Len(cls_query) |-> IF cls_query[i] = "H" THEN "h" ELSE cls_query[i]]

SomeKeywordInQuery == \E k \in 1..Len(keywords) : Contains(LoweredQuery, keywords[k])

\* C8: when the lower-cased query contains a configured keyword, the classifier
\* returns true and the chat model is not invoked during that call.
C8_KeywordFastPath ==
    (cls_pc = "done" /\ SomeKeywordInQuery) => (cls_result = TRUE /\ llm_calls = 0)

\* C8 witness: a query with a capital letter that matches only once lower-cased
C8_Witness ==
    /\ cls_pc = "done"
    /\ cls_query = <<"H", "o">>
    /\ keywords = << <<"h", "o">> >>
    /\ cls_result = TRUE
    /\ llm_calls = 0

\* the reply, stripped, is a number of at least 50
ReplyAtLeast50 ==
    LET p == ParseFloat(StripBlanks(cls_reply))
    IN  p.err = "none" /\ ~p.neg /\ p.mant >= 50 * Pow10(p.scale)

ReplyUnparseable == ParseFloat(StripBlanks(cls_reply)).err # "none"

\* C9: when no keyword matches, the chat model is asked once and the result is
\* true exactly when its reply parses to a number >= 50 or does not parse at all.
C9_FallbackDecision ==
    (cls_pc = "done" /\ ~SomeKeywordInQuery) =>
        /\ llm_calls = 1
        /\ cls_result = (ReplyAtLeast50 \/ ReplyUnparseable)

\* C9 witness: an unparseable reply yields true
C9_Witness ==
    /\ cls_pc = "done"
    /\ llm_calls = 1
    /\ cls_reply = <<"5", "x">>
    /\ cls_result = TRUE

\* replies at the boundary: "50" is accepted, "5.0" and "-50" are not
C9_WitnessBoundary ==
    /\ cls_pc = "done"
    /\ llm_calls = 1
    /\ cls_reply = <<"5", "0">>
    /\ cls_result = TRUE

(***************************************************************************)
(* Claims about the Citation Resolver                                      *)
(***************************************************************************)
CiteReturned == cite_pc = "done" /\ cite_outcome = "returned"

\* the mentions of the answer and of the returned text, left to right
InMentions == FindAll(cite_text, 1)
OutMentions == FindAll(cite_out, 1)

RECURSIVE ReadNumber(_, _, _)
ReadNumber(s, i, acc) ==
    IF i <= Len(s) /\ s[i] \in DigitChars
        THEN ReadNumber(s, i + 1, 10 * acc + DigitVal(s[i]))
        ELSE [value |-> acc, next |-> i]

\* the index in the bracketed marker that follows the text ending at position
\* stop of s, 0 when no marker follows
MarkerAfter(s, stop) ==
    IF StartsAt(s, stop + 1, MarkerOpen)
    THEN LET n == ReadNumber(s, stop + 1 + Len(MarkerOpen), 0)
         IN  IF StartsAt(s, n.next, MarkerClose) THEN n.value ELSE 0
    ELSE 0

\* the index carried by the k-th mention of the returned text (outM: its mentions)
OutIndex(outM, k) == MarkerAfter(cite_out, outM[k].stop)

\* the number of reference-list items of the returned text that carry index i
ListItems(i) ==
    LET item == LiOpen \o IntToChars(i) \o LiHref
    IN  Cardinality({q \in 1..Len(cite_out) :
                        cite_out[q] = "<" /\ StartsAt(cite_out, q, item)})

\* the best fuzzy score of mention g is below the threshold of 70
BelowThreshold(g) ==
    \A d \in 1..Len(docs_list) :
        100 * 2 * Lcs(NormalizeReferenceName(g), docs_list[d])
            < MatchThreshold * (Len(NormalizeReferenceName(g)) + Len(docs_list[d]))

\* position among the mentions of the first occurrence of mention g
FirstOccurrence(inM, g) ==
    CHOOSE k \in 1..Len(inM) :
        /\ inM[k].group = g
        /\ \A h \in 1..(k - 1) : inM[h].group # g

\* position p of s starts a marker or the references block
Emitted(s, p) == MarkerAfter(s, p - 1) > 0 \/ StartsAt(s, p, RefsHeader)

\* the returned text without its markers and without its references block
RECURSIVE Unmark(_, _)
Unmark(s, i) ==
    IF \E p \in i..Len(s) : Emitted(s, p)
    THEN LET p == CHOOSE p \in i..Len(s) :
                      Emitted(s, p) /\ \A h \in i..(p - 1) : ~Emitted(s, h)
         IN  SubSeq(s, i, p - 1)
                 \o (IF MarkerAfter(s, p - 1) > 0
                        THEN Unmark(s, ReadNumber(s, p + Len(MarkerOpen), 0).next
                                          + Len(MarkerClose))
                        ELSE <<>>)
    ELSE SubSeq(s, i, Len(s))

\* C5: the returned text has the mentions of the answer; occurrences of the same
\* mention carry the same index, and a mention that carries an index has exactly
\* one ref_details entry and exactly one reference-list item, with that index.
C5_OneIndexPerMention ==
    CiteReturned =>
      LET inM == InMentions
          outM == OutMentions
      IN
        /\ Len(outM) = Len(inM)
        /\ \A a \in 1..Len(outM) :
              /\ outM[a].group = inM[a].group
              /\ \A b \in 1..Len(outM) :
                    outM[a].group = outM[b].group => OutIndex(outM, a) = OutIndex(outM, b)
              /\ OutIndex(outM, a) > 0 =>
                    /\ Cardinality({j \in 1..Len(ref_details) :
                                       ref_details[j].ref_str = outM[a].group}) = 1
                    /\ \E j \in 1..Len(ref_details) :
                          /\ ref_details[j].ref_str = outM[a].group
                          /\ ref_details[j].index = OutIndex(outM, a)
                    /\ ListItems(OutIndex(outM, a)) = 1

\* C5 witness: "**Manual P6** y **Manual P6**" with Manual_P6.pdf in the corpus:
\* both occurrences carry [1] and the list has one item
C5_Witness ==
    LET inM == InMentions
        outM == OutMentions
    IN
    /\ CiteReturned
    /\ docs_list = <<FileManualP6>>
    /\ Len(inM) = 2
    /\ inM[1].group = inM[2].group
    /\ Len(outM) = 2
    /\ OutIndex(outM, 1) = 1 /\ OutIndex(outM, 2) = 1
    /\ Len(ref_details) = 1
    /\ ref_details[1].matched_filename = FileManualP6
    /\ ListItems(1) = 1

\* C6: a mention whose best score is below 70 has no index, no ref_details entry
\* and no marker; a mention whose best score is >= 70 has an index and a marker;
\* the returned text without markers and references block is the answer; when
\* every mention is below 70 the returned text is the answer.
C6_UnresolvedUntouched ==
    CiteReturned =>
      LET inM == InMentions
          outM == OutMentions
      IN
        /\ Len(outM) = Len(inM)
        /\ \A k \in 1..Len(inM) :
              IF BelowThreshold(inM[k].group)
              THEN /\ \A j \in 1..Len(ref_map) : ref_map[j].ref_str # inM[k].group
                   /\ \A j \in 1..Len(ref_details) :
                         ref_details[j].ref_str # inM[k].group
                   /\ OutIndex(outM, k) = 0
              ELSE /\ \E j \in 1..Len(ref_map) : ref_map[j].ref_str = inM[k].group
                   /\ OutIndex(outM, k) > 0
        /\ Unmark(cite_out, 1) = cite_text
        /\ (\A k \in 1..Len(inM) : BelowThreshold(inM[k].group))
              => cite_out = cite_text

\* C6 witness: one mention below 70 left alone beside one at exactly 70
C6_Witness ==
    LET inM == InMentions
        outM == OutMentions
    IN
    /\ CiteReturned
    /\ docs_list = <<FileManual6>>
    /\ \E k \in 1..Len(inM) :
          /\ BelowThreshold(inM[k].group)
          /\ OutIndex(outM, k) = 0
    /\ \E k \in 1..Len(inM) :
          /\ 100 * 2 * Lcs(NormalizeReferenceName(inM[k].group), FileManual6)
                = MatchThreshold * (Len(NormalizeReferenceName(inM[k].group))
                                      + Len(FileManual6))
          /\ OutIndex(outM, k) = 1

\* C6 witness: a text whose only mentions are unresolved comes back unchanged
C6_WitnessNothingResolved ==
    LET inM == InMentions
        outM == OutMentions
    IN
    /\ CiteReturned
    /\ docs_list # <<>>
    /\ Len(inM) > 0
    /\ ref_map = <<>>
    /\ cite_out = cite_text

\* the distinct resolved mentions that first occur before mention g does
ResolvedBefore(inM, g) ==
    {inM[h].group : h \in {h \in 1..(FirstOccurrence(inM, g) - 1) :
        ~BelowThreshold(inM[h].group)}}

ResolvedMentions(inM) ==
    {inM[h].group : h \in {h \in 1..Len(inM) : ~BelowThreshold(inM[h].group)}}

\* C7: the index of a resolved mention is 1 + the number of distinct resolved
\* mentions that first occur before it; with k distinct resolved mentions
\* ref_map holds the indices 1..k and the reference list one item for each.
C7_DenseIndices ==
    CiteReturned =>
      LET inM == InMentions
          outM == OutMentions
      IN
        /\ Len(outM) = Len(inM)
        /\ \A k \in 1..Len(inM) :
              ~BelowThreshold(inM[k].group) =>
                  OutIndex(outM, k) = 1 + Cardinality(ResolvedBefore(inM, inM[k].group))
        /\ Len(ref_map) = Cardinality(ResolvedMentions(inM))
        /\ \A j \in 1..Len(ref_map) : ref_map[j].index = j
        /\ \A i \in 1..Cardinality(ResolvedMentions(inM)) : ListItems(i) = 1
        /\ ListItems(Cardinality(ResolvedMentions(inM)) + 1) = 0

\* C7 witness: an unresolved mention between two resolved ones takes no index
C7_Witness ==
    LET inM == InMentions
        outM == OutMentions
    IN
    /\ CiteReturned
    /\ Len(inM) = 3
    /\ ~BelowThreshold(inM[1].group)
    /\ BelowThreshold(inM[2].group)
    /\ ~BelowThreshold(inM[3].group)
    /\ inM[1].group # inM[3].group
    /\ OutIndex(outM, 1) = 1 /\ OutIndex(outM, 2) = 0 /\ OutIndex(outM, 3) = 2

(***************************************************************************)
(* Claims about the Locale Number Formatter                                *)
(***************************************************************************)
\* C10: a text that contains the identifier "Room123" or the version string
\* "v2.0.1" comes back with that token in it, unchanged.
C10_NonInterference ==
    (loc_pc = "done" /\ loc_src = "en_US" /\ loc_tgt = "es_ES") =>
        /\ Contains(loc_in, TokenRoom) => Contains(loc_out, TokenRoom)
        /\ Contains(loc_in, TokenVersion) => Contains(loc_out, TokenVersion)

\* what the formatter does to the version string on its own: "v2.0,1"
C10_VersionRewritten ==
    /\ loc_pc = "done"
    /\ loc_src = "en_US" /\ loc_tgt = "es_ES"
    /\ loc_in = TokenVersion
    /\ loc_out = <<"v", "2", ".", "0", ",", "1">>

\* the matches of the number pattern in text from position i on, left to right
RECURSIVE NumberMatches(_, _)
NumberMatches(text, i) ==
    IF \E j \in i..Len(text) : NumberMatchAt(text, j).ok
    THEN LET j == CHOOSE j \in i..Len(text) :
                      NumberMatchAt(text, j).ok
                          /\ \A h \in i..(j - 1) : ~NumberMatchAt(text, h).ok
             m == NumberMatchAt(text, j)
         IN  <<m>> \o NumberMatches(text, m.stop + 1)
    ELSE <<>>

TokenOf(text, m) == SubSeq(text, m.start, m.stop)

\* parsing the token under the source locale or formatting it under the
\* target locale fails
TokenFails(token) ==
    ParseDecimal(token, loc_src).err \/ loc_tgt \notin KnownLocales

\* text with its matches ms[1..k] rewritten, the last one first: a token that
\* fails stays as it is, every other one is re-rendered
RECURSIVE Rewritten(_, _, _)
Rewritten(text, ms, k) ==
    IF k = 0 THEN text
    ELSE LET token == TokenOf(text, ms[k])
             new == IF TokenFails(token) THEN token
                    ELSE FormatDecimal(ParseDecimal(token, loc_src))
         IN  Rewritten(SubSeq(text, 1, ms[k].start - 1) \o new
                           \o SubSeq(text, ms[k].stop + 1, Len(text)),
                       ms, k - 1)

\* C11: whatever the text and the locales, convert_us_to_local returns: a
\* matched token whose parse or format fails is in the output as it was, the
\* other tokens are still re-rendered; when every token fails the text comes
\* back as it went in.
C11_FailurePolicy ==
    loc_pc = "done" =>
        LET ms == NumberMatches(loc_in, 1)
        IN  /\ loc_outcome = "returned"
            /\ loc_out = Rewritten(loc_in, ms, Len(ms))
            /\ (\A k \in 1..Len(ms) : TokenFails(TokenOf(loc_in, ms[k])))
                   => loc_out = loc_in

\* "1,000,000 1,234.50" read as de_DE: the first token does not parse and
\* stays, the second one is still re-rendered
C11_Witness ==
    /\ loc_pc = "done"
    /\ loc_outcome = "returned"
    /\ loc_src = "de_DE" /\ loc_tgt = "es_ES"
    /\ LET ms == NumberMatches(loc_in, 1)
       IN  /\ Len(ms) = 2
           /\ TokenFails(TokenOf(loc_in, ms[1]))
           /\ ~TokenFails(TokenOf(loc_in, ms[2]))
           /\ StartsAt(loc_out, 1, TokenOf(loc_in, ms[1]))
           /\ loc_out # loc_in

\* a locale without data: every token fails and the text is returned as is
C11_WitnessUnknownLocale ==
    /\ loc_pc = "done"
    /\ loc_outcome = "returned"
    /\ loc_src = UnknownLocale
    /\ NumberMatches(loc_in, 1) # <<>>
    /\ loc_out = loc_in

(***************************************************************************)
(* Claims about re-running, retrying and failing in the Citation Resolver  *)
(***************************************************************************)
\* the mention strings of a list of matches
Groups(ms) == [k \in 1..Len(ms) |-> ms[k].group]

\* C18: a second call on the text the first call returned extracts the
\* mentions of the original answer and no other: nothing the first call
\* emitted is taken for a mention.
C18_RerunSameMentions ==
    cite_pc = "rerun" => Groups(rerun_matches) = Groups(FindAll(cite_text, 1))

\* "**Anexo**" resolved to the file named "**Anexo**": the references block
\* carries the file name, and the second call extracts it as a second mention
C18_StarredFileRematched ==
    /\ cite_pc = "rerun"
    /\ cite_text = <<"*", "*", "A", "n", "e", "x", "o", "*", "*">>
    /\ docs_list = <<FileStarred, FileGuia>>
    /\ Len(FindAll(cite_text, 1)) = 1
    /\ Len(rerun_matches) = 2

\* C19: within one call find_closest_filename is called at most once for each
\* distinct mention string, resolved or not.
C19_OneShotPerMention ==
    cite_pc = "done" =>
        \A i, j \in 1..Len(fuzzy_calls) : fuzzy_calls[i] = fuzzy_calls[j] => i = j

\* "**Anexo** y **Anexo**" against a corpus without a match for it: two calls
C19_UnresolvedRetried ==
    /\ cite_pc = "done"
    /\ cite_outcome = "returned"
    /\ docs_list = <<FileManualP6>>
    /\ ref_map = <<>>
    /\ Len(fuzzy_calls) = 2
    /\ fuzzy_calls[1] = fuzzy_calls[2]

\* C20: whatever the answer text and the corpus, the empty corpus included,
\* the call returns; a mention without a candidate at or above the threshold
\* is left unresolved.
C20_NoMatchNotFatal ==
    cite_pc = "done" => cite_outcome = "returned"

\* one mention and an empty docs_list: the call raises at the first match
C20_EmptyCorpusRaises ==
    /\ cite_pc = "done"
    /\ docs_list = <<>>
    /\ Len(FindAll(cite_text, 1)) = 1
    /\ cite_outcome = "raised"
    /\ Len(fuzzy_calls) = 1

(***************************************************************************)
(* Claims about the chat requests                                          *)
(***************************************************************************)
\* merge_rag_fn has run in request r
Merged(r) == req[r].merged_spanish.set

\* C12: rag_parallel hands both branches over at once, and merge_rag_fn runs
\* only when both have returned: whatever the interleaving, the lists it reads
\* are the complete lists the two searches returned.
C12_ForkJoin ==
    \A r \in Requests :
        /\ req[r].pc = "parallel" =>
               req[r].spanish # "idle" /\ req[r].english # "idle"
        /\ Merged(r) =>
               /\ req[r].spanish = "done" /\ req[r].english = "done"
               /\ req[r].merged_spanish = req[r].spanish_results
               /\ req[r].merged_english = req[r].english_results

\* the two branches ran side by side and the merge read both non-empty lists
C12_Witness ==
    /\ Merged(1)
    /\ req[1].overlapped
    /\ Len(req[1].merged_spanish.value) = 2
    /\ Len(req[1].merged_english.value) = 1
    /\ req[1].written = 380

\* the Spanish search is running while the translation is
C12_WitnessSideBySide ==
    /\ req[1].pc = "parallel"
    /\ req[1].spanish = "searching"
    /\ req[1].english = "translating"

\* the tagged chunks of a stream
Tags(yielded) == [k \in 1..Len(yielded) |-> yielded[k].tag]

HasTag(yielded, tag) == \E k \in 1..Len(yielded) : yielded[k].tag = tag

\* C13: the English search is issued only once the translation has returned,
\* with the translation as its query; when the translation raises, no English
\* search is issued, no English result list (empty or not) reaches the merge,
\* merge_rag_fn does not run, and the request ends in the except clause of the
\* caller.
C13_TranslationFailure ==
    \A r \in Requests :
        /\ req[r].search_query # Unset =>
               /\ req[r].english_query # Unset
               /\ req[r].search_query = req[r].english_query
        /\ req[r].english_results.set => req[r].search_query # Unset
        /\ Merged(r) => req[r].search_query # Unset
        /\ req[r].english = "translate_failed" =>
               /\ req[r].search_query = Unset
               /\ ~req[r].english_results.set
               /\ ~Merged(r)
               /\ req[r].pc \in {"parallel", "error", "finally", "closed"}
               /\ req[r].pc # "parallel" => req[r].error \in {"translate", "spanish_search"}
               /\ req[r].pc \in {"finally", "closed"} =>
                      Tags(req[r].yielded) = <<"\n[ERROR] ">>

\* the translation raised while the Spanish search returned results: the
\* request ended with the error chunk of the translation
C13_Witness ==
    /\ req[1].pc = "closed"
    /\ req[1].english = "translate_failed"
    /\ req[1].spanish = "done"
    /\ req[1].spanish_results.value # <<>>
    /\ req[1].yielded = <<ErrorChunk("translate")>>

\* the chunks of the answer as generate yields them
TextChunks(streamed_chunks) ==
    [k \in 1..Len(streamed_chunks) |-> TextChunk(streamed_chunks[k])]

\* C14: a request that ends without an exception has yielded the chunks of
\* the answer, then one "[REF_POSTPROCESS]" chunk with the post-processed
\* concatenation of all of them, then one "[RUN_ID]" chunk, and nothing else;
\* at no time does a chunk of the answer follow a tagged chunk.
C14_StreamOrder ==
    \A r \in Requests :
        /\ \A i, j \in 1..Len(req[r].yielded) :
               (i < j /\ req[r].yielded[i].tag # "") => req[r].yielded[j].tag # ""
        /\ (req[r].pc = "closed" /\ req[r].error = "none") =>
               req[r].yielded =
                   TextChunks(req[r].streamed_chunks)
                       \o << RefChunk(PostProcessFn(Flatten(req[r].streamed_chunks),
                                                    docs_list).text),
                             RunIdChunk(RunUrn(r)) >>

\* "**Guia**" and " 1,234.5" streamed, then the answer with its citation and
\* the number in local form, then the run id
C14_Witness ==
    /\ req[1].pc = "closed"
    /\ req[1].error = "none"
    /\ req[1].streamed_chunks =
           << <<"*", "*", "G", "u", "i", "a", "*", "*">>,
              <<" ", "1", ",", "2", "3", "4", ".", "5">> >>
    /\ Tags(req[1].yielded) = <<"", "", "\n[REF_POSTPROCESS]", "\n[RUN_ID]">>
    /\ Contains(req[1].yielded[3].body, <<"1", ".", "2", "3", "4", ",", "5">>)
    /\ Contains(req[1].yielded[3].body, <<"[", "1", "]">>)

\* the chain of request r is past conditional_rag_fn's test
Decided(r) == req[r].pc \in {"invoke", "skip"}

\* C15: a /chat_stream whose message is the one /check_rag classified uses the
\* cached decision: the chain does not call the classifier and retrieval runs
\* exactly when the cached decision is true; with another message the
\* classifier is called once.
C15_CachedDecisionReused ==
    \A r \in Requests :
        Decided(r) =>
            IF req[r].already_classified
            THEN /\ req[r].classifier_calls = 0
                 /\ (req[r].pc = "invoke") = req[r].rag_decision
            ELSE req[r].classifier_calls = 1

\* /check_rag answered false for "o", the chain asks the classifier again,
\* gets true this time and runs the retrieval
C15_ClassifiedAgain ==
    /\ req[1].pc = "invoke"
    /\ req[1].user_message = MsgOther
    /\ session.cached_message = MsgOther
    /\ req[1].already_classified
    /\ ~req[1].rag_decision
    /\ req[1].classifier_calls = 1

\* C16: the score a request reads for its feedback is the one total_score
\* holds at that moment, the total of whichever request wrote it last, its own
\* or another's.
C16_LastWriteWins ==
    \A r \in Requests :
        req[r].score # -1 =>
            /\ req[r].score_from \in Requests
            /\ req[r].score = req[req[r].score_from].written

\* request 1 merged 380 and reads the 0 that request 2's skip wrote after it
C16_Witness ==
    /\ req[1].pc \in {"finally", "closed"}
    /\ req[1].written = 380
    /\ req[1].score = 0
    /\ req[1].score_from = 2
    /\ req[2].written = 0

\* C17: however a request ends, wait_for_all_tracers has run once; when the
\* chain, the post-processing or the feedback raised, what was yielded before
\* is still there, followed by one "[ERROR]" chunk and nothing after it, no
\* "[RUN_ID]" chunk in the stream.
C17_StreamFailure ==
    \A r \in Requests :
        /\ req[r].pc = "closed" => req[r].flushed = 1
        /\ req[r].pc # "closed" => req[r].flushed = 0
        /\ (req[r].pc = "closed" /\ req[r].error # "none") =>
               LET n == Len(req[r].yielded)
                   chunks == TextChunks(req[r].streamed_chunks)
               IN  /\ n >= 1
                   /\ req[r].yielded[n] = ErrorChunk(req[r].error)
                   /\ ~HasTag(req[r].yielded, "\n[RUN_ID]")
                   /\ \A k \in 1..(n - 1) : req[r].yielded[k].tag # "\n[ERROR] "
                   /\ SubSeq(req[r].yielded, 1, Len(chunks)) = chunks
                   /\ n \in {Len(chunks) + 1, Len(chunks) + 2}
                   /\ n = Len(chunks) + 2 =>
                          /\ req[r].error = "feedback"
                          /\ req[r].yielded[n - 1].tag = "\n[REF_POSTPROCESS]"

\* the feedback raised after two chunks and the post-processed answer
C17_Witness ==
    /\ req[1].pc = "closed"
    /\ req[1].error = "feedback"
    /\ req[1].flushed = 1
    /\ Tags(req[1].yielded) = <<"", "", "\n[REF_POSTPROCESS]", "\n[ERROR] ">>

\* the chain raised after one chunk
C17_WitnessChain ==
    /\ req[1].pc = "closed"
    /\ req[1].error = "chain"
    /\ Tags(req[1].yielded) = <<"", "\n[ERROR] ">>

\* the resolver raised on "**Guia**" with an empty docs_list
C17_WitnessPostProcess ==
    /\ req[1].pc = "closed"
    /\ req[1].error = "post_process"
    /\ docs_list = <<>>
    /\ Tags(req[1].yielded) = <<"", "\n[ERROR] ">>

(***************************************************************************)
(* C21: the conditional skip of the retrieval                              *)
(***************************************************************************)

\* the chain's classifier answered no for request r
DecidedNo(r) ==
    /\ req[r].classifier_calls = 1
    /\ ~req[r].rag_used
    /\ req[r].error # "classifier"

\* nothing of the retrieval was started for request r
NothingIssued(r) ==
    /\ req[r].spanish = "idle" /\ req[r].english = "idle"
    /\ ~req[r].spanish_results.set /\ ~req[r].english_results.set
    /\ req[r].english_query = Unset /\ req[r].search_query = Unset
    /\ ~Merged(r)

C21_State ==
    \A r \in Requests :
        /\ DecidedNo(r) =>
              /\ NothingIssued(r)
              /\ req[r].pc # "skip" =>
                    req[r].context = FallbackContext /\ req[r].written = 0
        /\ req[r].prompt_context.set =>
              /\ req[r].prompt_context.value = req[r].context
              /\ IF req[r].rag_used
                 THEN /\ req[r].spanish = "done" /\ req[r].english = "done"
                      /\ Merged(r)
                 ELSE req[r].prompt_context.value = FallbackContext

C21_Step ==
    \A r \in Requests :
        /\ (req[r].pc = "skip" /\ req'[r].pc # "skip") =>
              total_score' = 0 /\ req'[r].pc = "summarize"
        /\ (req[r].pc = "summarize" /\ req'[r].pc # "summarize") =>
              req'[r].pc \in {"prompt", "error"}
        /\ (req[r].pc = "prompt" /\ req'[r].pc # "prompt") =>
              req'[r].pc \in {"llm", "error"}

\* C21: when the classifier answers no, no search and no translation is issued
\* for the request, the context is the fallback sentence, total_score is set
\* to 0 and the request goes on to the summarizer, the prompt and the chat
\* model; when it answers yes, a prompt is assembled only after both searches
\* and the merge have run, and from the merged context.
C21_ConditionalSkip == []C21_State /\ [][C21_Step]_vars

\* a skipped request whose prompt carries the fallback sentence and whose
\* answer is streaming
C21_Witness ==
    /\ DecidedNo(1)
    /\ req[1].prompt_context = Present(FallbackContext)
    /\ req[1].streamed_chunks # <<>>

\* a request with retrieval whose prompt carries a merged context with a
\* rendered block
C21_WitnessRetrieved ==
    /\ req[1].rag_used
    /\ req[1].prompt_context.set
    /\ req[1].prompt_context.value # FallbackContext
    /\ req[1].streamed_chunks # <<>>

(***************************************************************************)
(* C22: the attribution line of a rendered block                           *)
(***************************************************************************)

\* the result carries a file name: the field is there and is not None
HasFileName(res) == res.file_name # NoAttr /\ res.file_name # Null

\* the lines of the k-th block of the context: attribution and text
BlockAttribution(k) == context[5 * (k - 1) + 2]
BlockText(k) == context[5 * (k - 1) + 4]

\* C22: in the merged context the block of every kept result names the
\* result's file_name when it has one and the label "Documento <lang>" of the
\* entry's language when the file name is absent, be it a missing field or a
\* null one, and the entry's suggested text follows the attribution line.
C22_AttributionLine ==
    rag_pc = "merged" =>
        \A k \in 1..Len(combined_list) :
            LET entry == combined_list[k]
            IN  /\ BlockAttribution(k) =
                      <<"The following text excerpt is from a document named ">>
                          \o (IF HasFileName(entry.res)
                              THEN <<entry.res.file_name>>
                              ELSE <<"Documento ", entry.lang>>)
                          \o <<":">>
                /\ entry.res.suggested_text # "" =>
                      BlockText(k) = <<entry.res.suggested_text>>

\* a kept result whose file_name is None is rendered as the document "None"
C22_NullRenderedAsNone ==
    /\ rag_pc = "merged"
    /\ Len(combined_list) = 1
    /\ combined_list[1].res.file_name = Null
    /\ BlockAttribution(1) =
          <<"The following text excerpt is from a document named ", "None", ":">>

(***************************************************************************)
(* C23: the singleton is never handed out half-initialised                 *)
(***************************************************************************)

\* the instance a construction returned carries every attribute
FullyInitialised(c) == c.attrs = {Attributes[i] : i \in 1..Len(Attributes)}

\* C23: every RAGService() call that returns hands out the one instance with
\* its initialisation run to completion exactly once, and after a call that
\* failed on the configuration a later call under the same configuration
\* fails too instead of returning the instance.
C23_NoHalfInitialised ==
    /\ svc_instance.completed <= 1
    /\ \A k \in 1..Len(constructions) :
          /\ ~constructions[k].raised =>
                FullyInitialised(constructions[k]) /\ svc_instance.completed = 1
          /\ \A j \in 1..(k - 1) :
                (constructions[j].raised /\ constructions[k].env = constructions[j].env)
                    => constructions[k].raised

\* the first call raises on the missing OPENAI_API_KEY, the second returns the
\* instance without chat_model, groundx, total_score and reference_maker
C23_HalfInitialisedReturned ==
    /\ Len(constructions) = 2
    /\ constructions[1].env = "no_openai_key" /\ constructions[1].raised
    /\ constructions[2].env = "no_openai_key" /\ ~constructions[2].raised
    /\ "reference_maker" \notin constructions[2].attrs
    /\ svc_instance.completed = 0

(***************************************************************************)
(* C24: post-processing leaves the resolver's markers and links alone      *)
(***************************************************************************)

\* the last n characters of a text
Suffix(text, n) == SubSeq(text, Len(text) - n + 1, Len(text))

\* the positions where the marker of index i stands in a text
MarkersOf(text, i) ==
    {q \in 1..Len(text) :
        StartsAt(text, q, MarkerOpen \o IntToChars(i) \o MarkerClose)}

\* C24: the final text of post_process_fn ends with the references block just
\* as the resolver produced it, hrefs and link texts included, and carries
\* each index marker as often as the resolver's text does; the locale step
\* changes number tokens of the prose only.
C24_LinksUntouched ==
    (cite_pc = "done" /\ cite_outcome = "returned" /\ loc_outcome = "returned") =>
        LET block == ReferencesBlock(ref_details)
        IN  /\ Len(loc_out) >= Len(block)
            /\ Suffix(loc_out, Len(block)) = block
            /\ \A k \in 1..Len(ref_details) :
                  Cardinality(MarkersOf(loc_out, ref_details[k].index))
                      = Cardinality(MarkersOf(cite_out, ref_details[k].index))

\* the mention of "Guia 1.5.md" is resolved and the link to it is rewritten:
\* the href "Guia%201.5.md" and the link text lose their decimal point
C24_HrefRewritten ==
    /\ cite_pc = "done"
    /\ docs_list = <<FileGuia15>>
    /\ Len(ref_details) = 1
    /\ ref_details[1].matched_filename = FileGuia15
    /\ Contains(cite_out, <<"G", "u", "i", "a", "%", "2", "0", "1", ".", "5", ".", "m", "d">>)
    /\ ~Contains(loc_out, <<"G", "u", "i", "a", "%", "2", "0", "1", ".", "5", ".", "m", "d">>)
    /\ Contains(loc_out, <<"G", "u", "i", "a", "%", "2", "0", "1", ",", "5", ".", "m", "d">>)
    /\ Contains(loc_out, <<">", "G", "u", "i", "a", " ", "1", ",", "5", ".", "m", "d", "<">>)


====
